---- MODULE Spec2Model ----
(***************************************************************************)
(* Model of the block replication engine of thanos (package replicate):    *)
(* BlockFilter.Filter, replicationScheme.execute, ensureBlockIsReplicated, *)
(* ensureObjectReplicated and loadMeta, with the two buckets and the       *)
(* metadata fetcher as the environment.  Every bucket call is one step, so *)
(* a pass can be aborted between any two calls.                            *)
(***************************************************************************)
EXTENDS Integers, Sequences, FiniteSets, TLC

\* ------------------------------------------------------------------ bounds
\* Passes (calls of execute) that may be started in one behaviour.
MaxPasses == 3
\* Calls that may be made to fail (injected I/O failure or cancellation).
MaxFailures == 2
\* Compaction levels of the blocks given to the filter: 1..MaxCompactionLevel.
MaxCompactionLevel == 3

\* ------------------------------------------------------------ data model
NoObj == "<none>"

\* thanosblock.MetaFilename / IndexFilename / ChunksDirname: the three kinds
\* of object under a block's directory.
MetaPath(b) == [blk |-> b, kind |-> "meta.json", n |-> 0]
IndexPath(b) == [blk |-> b, kind |-> "index", n |-> 0]
ChunkPath(b, k) == [blk |-> b, kind |-> "chunks", n |-> k]

\* compact.ResolutionLevel: raw, 5 minutes and 1 hour, in milliseconds.
ResolutionLevels == {0, 300000, 3600000}

\* ------------------------------------------------------------ BlockFilter
\* labels.Labels.Get: the value of label name, "" when the label is absent.
\* A label set is a set of <<name, value>> pairs with distinct names.
LabelsGet(ls, name) ==
  IF \E l \in ls : l[1] = name
    THEN (CHOOSE l \in ls : l[1] = name)[2]
    ELSE ""

\* labels.Matcher.Matches for the equality and inequality matchers.
MatcherMatches(m, v) ==
  IF m.type = "=" THEN v = m.value ELSE v # m.value

\* labels.Selector.Matches: every matcher matches the value of its label.
SelectorMatches(sel, ls) ==
  \A i \in 1..Len(sel) : MatcherMatches(sel[i], LabelsGet(ls, sel[i].name))

\* A filter that stops after the selector check (the two allow-lists are
\* never consulted).
FilterNoAllowLists(bf, b) ==
  IF Cardinality(b.labels) = 0 THEN FALSE
  ELSE SelectorMatches(bf.labelSelector, b.labels)

\* BlockFilter.Filter: the four checks in the order of the code, each an
\* early return.
Filter(bf, b) ==
  IF Cardinality(b.labels) = 0 THEN FALSE
  ELSE IF ~SelectorMatches(bf.labelSelector, b.labels) THEN FALSE
  ELSE IF b.resolution \notin bf.resolutionLevels THEN FALSE
  ELSE IF b.level \notin bf.compactionLevels THEN FALSE
  ELSE TRUE

\* ------------------------------------------------------- source scenarios
\* metadata.Meta, reduced to the fields the engine reads.
Meta(id, minTime, ls, res, lvl) ==
  [id |-> id, minTime |-> minTime, labels |-> ls, resolution |-> res, level |-> lvl]

\* A top-level entry of the origin bucket.  thanosblock.IsBlockDir parses
\* the name as a ULID directory: dir is its ok result, id the parsed ULID.
BlockDir(id) == [dir |-> TRUE, id |-> id]
OtherEntry == [dir |-> FALSE, id |-> 0]

LabelsX == {<<"cluster", "x">>}
LabelsY == {<<"cluster", "y">>}
SelectX == << [type |-> "=", name |-> "cluster", value |-> "x"] >>
SelectNotY == << [type |-> "!=", name |-> "cluster", value |-> "y"] >>

\* NewBlockFilter: the selector and the two allow-lists turned into sets.
NewBlockFilter(labelSelector, resolutionLevels, compactionLevels) ==
  [labelSelector |-> labelSelector,
   resolutionLevels |-> resolutionLevels,
   compactionLevels |-> compactionLevels]

\* Three eligible blocks listed in ULID order 1, 2, 3 whose minTime order is
\* 2, 3, 1, and one entry that is no block directory.
SrcOrdered ==
  [entries |-> << BlockDir(1), OtherEntry, BlockDir(2), BlockDir(3) >>,
   metas |-> (1 :> Meta(1, 30, LabelsX, 0, 1) @@ 2 :> Meta(2, 10, LabelsX, 0, 1)
              @@ 3 :> Meta(3, 20, LabelsX, 0, 1)),
   chunks |-> (1 :> 2 @@ 2 :> 1 @@ 3 :> 1),
   syncNotFound |-> FALSE,
   blockFilter |-> "BlockFilter.Filter",
   filter |-> NewBlockFilter(SelectX, {0}, {1})]

\* Block 2 is still being uploaded (no meta.json, absent from the fetched
\* mapping); blocks 1 and 3 are eligible and share their minTime.
SrcPartial ==
  [entries |-> << BlockDir(1), BlockDir(2), BlockDir(3) >>,
   metas |-> (1 :> Meta(1, 10, LabelsX, 0, 1) @@ 3 :> Meta(3, 10, LabelsX, 0, 1)),
   chunks |-> (1 :> 1 @@ 2 :> 1 @@ 3 :> 0),
   syncNotFound |-> FALSE,
   blockFilter |-> "BlockFilter.Filter",
   filter |-> NewBlockFilter(SelectX, {0}, {1})]

\* Block 1 has no external labels, block 3 has a compaction level that is
\* not allowed, block 5 does not match the selector; 2 and 4 are eligible.
SrcFiltered ==
  [entries |-> << BlockDir(1), BlockDir(2), BlockDir(3), BlockDir(4), BlockDir(5) >>,
   metas |-> (1 :> Meta(1, 5, {}, 0, 1) @@ 2 :> Meta(2, 20, LabelsX, 0, 1)
              @@ 3 :> Meta(3, 7, LabelsX, 0, 3) @@ 4 :> Meta(4, 10, LabelsX, 300000, 2)
              @@ 5 :> Meta(5, 1, LabelsY, 0, 1)),
   chunks |-> (1 :> 1 @@ 2 :> 1 @@ 3 :> 1 @@ 4 :> 1 @@ 5 :> 0),
   syncNotFound |-> FALSE,
   blockFilter |-> "BlockFilter.Filter",
   filter |-> NewBlockFilter(SelectNotY, {0, 300000}, {1, 2})]

\* The fetcher reports block.ErrorSyncMetaNotFound for this origin.
SrcSyncNotFound ==
  [entries |-> << BlockDir(1), BlockDir(2) >>,
   metas |-> (1 :> Meta(1, 10, LabelsX, 0, 1) @@ 2 :> Meta(2, 20, LabelsX, 0, 1)),
   chunks |-> (1 :> 1 @@ 2 :> 1),
   syncNotFound |-> TRUE,
   blockFilter |-> "BlockFilter.Filter",
   filter |-> NewBlockFilter(SelectX, {0}, {1})]

\* Block 2 has no external labels, and rs.blockFilter is a function that
\* accepts every block it is given.
SrcNoLabels ==
  [entries |-> << BlockDir(1), BlockDir(2) >>,
   metas |-> (1 :> Meta(1, 20, LabelsX, 0, 1) @@ 2 :> Meta(2, 10, {}, 0, 1)),
   chunks |-> (1 :> 1 @@ 2 :> 1),
   syncNotFound |-> FALSE,
   blockFilter |-> "acceptAll",
   filter |-> NewBlockFilter(SelectX, {0}, {1})]

Sources == {SrcOrdered, SrcPartial, SrcFiltered, SrcSyncNotFound, SrcNoLabels}

\* rs.blockFilter, a blockFilterFunc: the Filter method of the BlockFilter of
\* the origin, or a function that returns true for every block.
blockFilter(s, b) ==
  IF s.blockFilter = "acceptAll" THEN TRUE ELSE Filter(s.filter, b)

\* The block directories of an origin and the object paths under them.
BlockIds(s) == {s.entries[i].id : i \in {j \in 1..Len(s.entries) : s.entries[j].dir}}

Paths(s) ==
  UNION {{MetaPath(b), IndexPath(b)} \cup {ChunkPath(b, k) : k \in 1..s.chunks[b]}
         : b \in BlockIds(s)}

\* The bytes of an origin object.  meta.json exists only for the blocks whose
\* upload is complete.
SrcGet(s, path) ==
  IF path.kind = "meta.json"
    THEN IF path.blk \in DOMAIN s.metas THEN "meta.v2" ELSE NoObj
    ELSE "full"

\* ------------------------------------------------ destination scenarios
EmptyBucket(s) == [path \in Paths(s) |-> NoObj]

\* The block with the least ULID among those whose meta.json exists.
SeedBlock(s) == CHOOSE b \in DOMAIN s.metas : \A c \in DOMAIN s.metas : b <= c

\* What the target bucket may hold before the first pass: nothing; an older
\* meta.json of one block together with a truncated first chunk; the current
\* meta.json of one block and none of its other objects.
Destinations(s) ==
  LET b == SeedBlock(s)
      stale == [EmptyBucket(s) EXCEPT ![MetaPath(b)] = "meta.v1"]
  IN  { EmptyBucket(s),
        IF s.chunks[b] > 0 THEN [stale EXCEPT ![ChunkPath(b, 1)] = "trunc"] ELSE stale,
        [EmptyBucket(s) EXCEPT ![MetaPath(b)] = SrcGet(s, MetaPath(b))] }

\* ------------------------------------------------------------------ state
\* The executions of the pass there may be; procs says which of them run.
Procs == {1, 2}

NoPath == [blk |-> 0, kind |-> "", n |-> 0]

VARIABLES
  src,       \* the origin bucket, the fetcher's view of it and the filter: fixed
  dst,       \* the target bucket: path -> bytes, NoObj where there is no object
  dst0,      \* the target bucket before the first pass
  procs,     \* the executions of the pass that may run
  loc,       \* per execution: its position and the local variables of the code
  metrics,   \* replicationMetrics: the six counters
  passes,    \* calls of execute started so far
  failures,  \* calls made to fail so far
  hist,      \* per execution: the record of what the current pass has done
  fin,       \* the inputs and the result of the filter check
  probe,     \* the Prober of the component and the probe requests being served
  recv,      \* the receive component: its run group and its remote-write handler
  thr        \* the goroutines using the Prober and the mutexes they hold

vars == <<src, dst, dst0, procs, loc, metrics, passes, failures, hist, fin, probe, recv, thr>>

\* The local variables of execute, ensureBlockIsReplicated and
\* ensureObjectReplicated, and the position in them.
IdleLoc ==
  [pc |-> "idle",
   entryIdx |-> 0,
   availableBlocks |-> <<>>,
   candidateBlocks |-> <<>>,
   ci |-> 0,
   id |-> 0,
   originMetaFileContent |-> NoObj,
   targetMetaFile |-> NoObj,
   chunkIdx |-> 0,
   objectName |-> NoPath]

\* newReplicationMetrics: all counters start at zero.
newReplicationMetrics ==
  [originIterations |-> 0, originMetaLoads |-> 0, originPartialMeta |-> 0,
   blocksAlreadyReplicated |-> 0, blocksReplicated |-> 0, objectsReplicated |-> 0]

\* The record kept of a call of ensureObjectReplicated.
NoObjectCall ==
  [path |-> NoPath,       \* objectName
   ret |-> "none",        \* "running", "ok" or "error"
   existed |-> FALSE,     \* the target bucket held the path at the Exists call
   held |-> NoObj,        \* what the target bucket held under the path then
   read |-> FALSE,        \* rs.fromBkt.Get was called
   uploaded |-> FALSE]    \* rs.toBkt.Upload was called

\* The record kept of a pass: what the claims below speak of.
NoCall ==
  [blk |-> 0, ret |-> "none", done |-> {}, indexFailed |-> FALSE,
   metaUpload |-> FALSE, metaBefore |-> NoObj,
   exists |-> 0,                   \* Exists calls made by the call
   listed |-> FALSE,               \* the chunks directory was listed
   uploads |-> 0,                  \* Upload calls made by the call
   order |-> <<>>,                 \* the paths given to ensureObjectReplicated, in order
   before |-> newReplicationMetrics, \* the counters when the call began
   failuresBefore |-> 0,           \* the failures injected before the call
   obj |-> NoObjectCall]           \* the running or last ensureObjectReplicated call

NoLoad == [meta |-> 0, partial |-> FALSE, err |-> FALSE]

FreshHist(prev, bucket) ==
  [result |-> "running",   \* of this pass: "running", "ok" or "error"
   prevResult |-> prev,    \* of the pass before it ("none" for the first)
   startDst |-> bucket,    \* the target bucket when the pass started
   uploads |-> 0,          \* Upload calls made on the target bucket
   overwritten |-> {},     \* paths that held an object when Upload was called
   touched |-> {},         \* blocks for whose objects a bucket call was made
   calls |-> <<>>,         \* blocks handed to ensureBlockIsReplicated, in order
   commits |-> <<>>,       \* blocks whose meta.json upload succeeded, in order
   failed |-> FALSE,       \* some call of the pass failed
   failedBlock |-> 0,      \* the block whose transfer failed
   visited |-> 0,          \* entries the listing callback was called for
   available |-> 0,        \* blocks found available so far
   candidates |-> <<>>,    \* the sorted candidates
   hardAt |-> 0,           \* the entry whose metadata fetch failed hard
   lastLoad |-> NoLoad,    \* what loadMeta returned last
   lastVisit |-> "none",   \* what the callback did with it
   partial |-> {},         \* block directories skipped as partial
   partialCount |-> 0,     \* originPartialMeta when the pass started
   startMetrics |-> newReplicationMetrics, \* the counters when the pass started
   call |-> NoCall,        \* the running or last ensureBlockIsReplicated call
   \* kept from pass to pass:
   landed |-> {},          \* paths under which an Upload stored an object
   reuploaded |-> {},      \* paths for which Upload was called again after that
   objectUploads |-> 0,    \* Upload calls for chunk and index files that returned nil
   metaUploads |-> 0]      \* Upload calls for meta.json that returned nil

NoHist == [FreshHist("none", <<>>) EXCEPT !.result = "none"]

NoFilterInput ==
  [bf |-> NewBlockFilter(<<>>, {}, {}), b |-> Meta(0, 0, {}, 0, 0), res |-> "none"]

\* ----------------------------------------------------------------- Prober
\* An error value is the sequence of the words of its message; nil is the
\* empty sequence.
NilErr == <<>>

\* fmt.Errorf(initialErrorText, component)
InitialErr(component) == <<"thanos", component, "is initializing">>

\* The requests being served: one at a time, while the states are being set.
Reqs == {1}

NoReq ==
  [pc |-> "idle",          \* "idle", "called" (probeFunc returned) or "done"
   path |-> "",            \* the endpoint of the request
   err |-> NilErr,         \* the local variable err of the handler
   status |-> 0,           \* the status code written
   body |-> <<>>,          \* the body written
   seen |-> NilErr,        \* the state of the endpoint when probeFunc read it
   after |-> [op |-> "none", err |-> NilErr]] \* the call that had set that state

\* &Prober{} before NewProber has set its fields, the handlers attached.
\* variant: which body the handler writes for an error, the one of
\* pkg/prober/prober.go or the older one.
ZeroProber ==
  [variant |-> "errorProbeText", component |-> "",
   readiness |-> NilErr, healthiness |-> NilErr,
   reqs |-> [r \in Reqs |-> NoReq],
   lastReady |-> [op |-> "none", err |-> NilErr],    \* the last readiness-setting call
   lastHealthy |-> [op |-> "none", err |-> NilErr],  \* the last healthiness-setting call
   \* the last return of IsReady and of IsHealthy: the value, the setting call
   \* it came after, and whether SetReady (SetHealthy) had been called
   isReady |-> [ret |-> <<"none">>, after |-> [op |-> "none", err |-> NilErr], set |-> FALSE],
   isHealthy |-> [ret |-> <<"none">>, after |-> [op |-> "none", err |-> NilErr], set |-> FALSE],
   setReady |-> FALSE,     \* SetReady has been called
   setHealthy |-> FALSE]   \* SetHealthy has been called

\* ------------------------------------------------------ receive component
\* The actors runReceive adds to the run group, in the order of g.Add.
Actors == <<"ready", "tsdb", "grpc", "http">>

\* A request to /api/v1/receive.
NoWrite ==
  [pc |-> "idle",            \* "idle", "checked" (isReady returned) or "done"
   body |-> "",              \* what the request body is
   readyErr |-> NilErr,      \* the local variable ready_err of testReady
   seen |-> NilErr,          \* the readiness state when isReady read it
   receive |-> FALSE,        \* h.receive was called
   writer |-> "none",        \* h.receiver.Receive: "none" (not called), "ok" or "error"
   status |-> 0,             \* the status code of the response
   reason |-> <<>>]          \* the body of the response

\* The receive component before runReceive.
NoReceive ==
  [run |-> "none",           \* g.Run: "none", "running", "interrupting", "waiting", "returned"
   first |-> "none",         \* the actor whose return ended the wait of g.Run
   next |-> 0,               \* the interrupt function g.Run calls next
   pc |-> [a \in {"ready", "tsdb", "grpc", "http"} |-> "none"],
   dbOpen |-> "open",        \* the channels: "open" or "closed"
   cancelReady |-> "open",
   cancelTSDB |-> "open",
   reloadReady |-> "open",
   once |-> FALSE,           \* reloadReady.once has run its function
   closes |-> 0,             \* times close(reloadReady.C) was executed
   localStorage |-> "empty", \* tsdb.ReadyStorage: "empty", "set" or "closed"
   s |-> "nil",              \* the gRPC server: "nil", "new", "serving", "stopped"
   l |-> "nil",              \* the gRPC listener: "nil", "open", "closed"
   listener |-> "open",      \* the HTTP listener
   write |-> NoWrite,        \* the remote-write request being served
   \* what the claims speak of:
   signalledFirst |-> FALSE, \* cancel of the first actor was closed before dbOpen
   readyAfter |-> "none"]    \* the state of dbOpen when webHandler.Ready was called

\* ------------------------------------------------- goroutines on a Prober
\* The goroutines that call one Prober at the same time.
MaxGoroutines == 2

Goroutines == 1 .. MaxGoroutines

\* The mutexes of the struct Prober.
Mutexes == {"loggerMtx", "componentMtx", "readyMtx", "healthyMtx"}

\* A goroutine that is in no call of the Prober.
NoOp ==
  [op |-> "none",            \* the exported function it called
   err |-> NilErr,           \* the argument of SetNotReady, SetNotHealthy
   pc |-> 0,                 \* the step of the call it takes next
   held |-> <<>>,            \* the mutexes it holds, in the order it locked them
   \* the last read of readiness or healthiness in this call: the field, the
   \* value, and whether a call that had started by then wrote that value
   field |-> "none",
   ret |-> NilErr,
   okRead |-> TRUE]

\* The Prober's locks and logger before any goroutine calls it.
NoThreads ==
  [mtx |-> [m \in Mutexes |-> 0],   \* the goroutine holding each mutex, 0: unlocked
   logger |-> "logger",              \* p.logger
   g |-> [t \in Goroutines |-> NoOp],
   \* the values the calls setting each field, started so far, were given
   invoked |-> [readiness |-> {}, healthiness |-> {}]]

InitCommon ==
  /\ loc = [p \in Procs |-> IdleLoc]
  /\ metrics = newReplicationMetrics
  /\ passes = 0
  /\ failures = 0
  /\ hist = [p \in Procs |-> NoHist]

Init ==
  /\ src \in Sources
  /\ dst \in Destinations(src)
  /\ dst0 = dst
  /\ procs = {1}
  /\ fin = NoFilterInput
  /\ probe = ZeroProber
  /\ recv = NoReceive
  /\ thr = NoThreads
  /\ InitCommon

\* ------------------------------------------------------------- helpers
CanFail == failures < MaxFailures

\* execute returns: the pass is over and its local variables are gone.
Returned(h, result) == [h EXCEPT !.result = result]

\* A call failed and the error is propagated out of execute.
Aborted(h) == [Returned(h, "error") EXCEPT !.failed = TRUE]

\* A call inside ensureBlockIsReplicated failed: the error is wrapped by
\* every caller up to execute, which returns it.
BlockAborted(h) ==
  [Aborted(h) EXCEPT !.failedBlock = h.call.blk, !.call.ret = "error"]

Touch(h, b) == [h EXCEPT !.touched = @ \cup {b}]

\* --------------------------------------------------------------- loadMeta
\* rs.fetcher.Fetch on this origin: a hard failure when one is injected,
\* else what the origin determines.
FetchResults(s) ==
  (IF CanFail THEN {"hard"} ELSE {})
    \cup {IF s.syncNotFound THEN "syncNotFound" ELSE "metas"}

\* loadMeta with every fetch failure reported as a partial block.
loadMetaAllPartial(s, fetched, id) ==
  IF fetched = "hard" THEN [meta |-> 0, partial |-> TRUE, err |-> TRUE]
  ELSE IF fetched = "syncNotFound" THEN [meta |-> 0, partial |-> TRUE, err |-> TRUE]
  ELSE IF id \notin DOMAIN s.metas THEN [meta |-> 0, partial |-> TRUE, err |-> FALSE]
  ELSE [meta |-> id, partial |-> FALSE, err |-> FALSE]

\* loadMeta: (meta, metaNonExistentOrPartial, err).  errors.Wrap of a nil
\* error is nil, so an identifier absent from the mapping comes with no error.
loadMeta(s, fetched, id) ==
  IF fetched = "hard" THEN [meta |-> 0, partial |-> FALSE, err |-> TRUE]
  ELSE IF fetched = "syncNotFound" THEN [meta |-> 0, partial |-> TRUE, err |-> TRUE]
  ELSE IF id \notin DOMAIN s.metas THEN [meta |-> 0, partial |-> TRUE, err |-> FALSE]
  ELSE [meta |-> id, partial |-> FALSE, err |-> FALSE]

\* The callback without its test of the external labels.
VisitLabelsUnchecked(s, r) ==
  IF r.partial THEN "partial"
  ELSE IF r.err THEN "error"
  ELSE "available"

\* The callback with the error tested before the partial flag.
VisitErrFirst(s, r) ==
  IF r.err THEN "error"
  ELSE IF r.partial THEN "partial"
  ELSE IF Cardinality(s.metas[r.meta].labels) = 0 THEN "nolabels"
  ELSE "available"

\* What the listing callback of execute does with loadMeta's result, in the
\* order of its tests.
Visit(s, r) ==
  IF r.partial THEN "partial"
  ELSE IF r.err THEN "error"
  ELSE IF Cardinality(s.metas[r.meta].labels) = 0 THEN "nolabels"
  ELSE "available"

\* ---------------------------------------------------------------- execute
StartPass(p) ==
  /\ p \in procs
  /\ loc[p].pc = "idle"
  /\ passes < MaxPasses
  /\ passes' = passes + 1
  /\ loc' = [loc EXCEPT ![p] = [IdleLoc EXCEPT !.pc = "iter", !.entryIdx = 1]]
  /\ hist' = [hist EXCEPT ![p] =
               [FreshHist(hist[p].result, dst) EXCEPT
                  !.partialCount = metrics.originPartialMeta,
                  !.startMetrics = metrics,
                  !.landed = hist[p].landed,
                  !.reuploaded = hist[p].reuploaded,
                  !.objectUploads = hist[p].objectUploads,
                  !.metaUploads = hist[p].metaUploads]]
  /\ UNCHANGED <<src, dst, dst0, procs, metrics, failures, fin, probe, recv, thr>>

\* The counter incremented for block directories only.
CountBlockDirsOnly(m, e) ==
  IF e.dir THEN [m EXCEPT !.originIterations = @ + 1] ELSE m

\* rs.metrics.originIterations.Inc(): the first statement of the callback,
\* before the name is parsed.
CountEntry(m, e) == [m EXCEPT !.originIterations = @ + 1]

\* One call of the callback rs.fromBkt.Iter(ctx, "", ...) is given.
IterEntry(p) ==
  /\ loc[p].pc = "iter"
  /\ loc[p].entryIdx <= Len(src.entries)
  /\ LET e == src.entries[loc[p].entryIdx]
         h == [hist[p] EXCEPT !.visited = @ + 1]
     IN  IF ~e.dir
           THEN /\ metrics' = CountEntry(metrics, e)
                /\ loc' = [loc EXCEPT ![p].entryIdx = @ + 1]
                /\ hist' = [hist EXCEPT ![p] = h]
                /\ UNCHANGED failures
           ELSE \E fetched \in FetchResults(src) :
                  LET r == loadMeta(src, fetched, e.id)
                      v == Visit(src, r)
                      m == [CountEntry(metrics, e) EXCEPT !.originMetaLoads = @ + 1]
                  IN  /\ failures' = IF fetched = "hard" THEN failures + 1 ELSE failures
                      /\ metrics' = IF v = "partial"
                                      THEN [m EXCEPT !.originPartialMeta = @ + 1]
                                      ELSE m
                      /\ loc' = IF v = "error"
                                  THEN [loc EXCEPT ![p] = IdleLoc]
                                  ELSE IF v = "available"
                                    THEN [loc EXCEPT ![p].entryIdx = @ + 1,
                                                     ![p].availableBlocks = Append(@, r.meta)]
                                    ELSE [loc EXCEPT ![p].entryIdx = @ + 1]
                      /\ hist' = [hist EXCEPT ![p] =
                                   LET g == [h EXCEPT
                                               !.lastLoad = r,
                                               !.lastVisit = v,
                                               !.hardAt = IF fetched = "hard"
                                                            THEN loc[p].entryIdx ELSE @,
                                               !.partial = IF r.partial
                                                             THEN @ \cup {e.id} ELSE @,
                                               !.available = IF v = "available"
                                                               THEN @ + 1 ELSE @]
                                   IN  IF v = "error" THEN Aborted(g) ELSE g]
  /\ UNCHANGED <<src, dst, dst0, procs, passes, fin, probe, recv, thr>>

\* The listing of the origin bucket itself fails.
IterFail(p) ==
  /\ loc[p].pc = "iter"
  /\ CanFail
  /\ failures' = failures + 1
  /\ loc' = [loc EXCEPT ![p] = IdleLoc]
  /\ hist' = [hist EXCEPT ![p] = Aborted(@)]
  /\ UNCHANGED <<src, dst, dst0, procs, metrics, passes, fin, probe, recv, thr>>

\* The blocks of a sequence that rs.blockFilter accepts, in their order.
RECURSIVE Candidates(_, _)
Candidates(s, blocks) ==
  IF blocks = <<>> THEN <<>>
  ELSE LET rest == Candidates(s, Tail(blocks))
       IN  IF blockFilter(s, s.metas[Head(blocks)])
             THEN <<Head(blocks)>> \o rest
             ELSE rest

Range(q) == {q[i] : i \in 1..Len(q)}

\* The comparison turned round: newest start timestamp first.
LessReversed(s, a, b) == s.metas[a].minTime > s.metas[b].minTime

\* The less function given to sort.Slice.
Less(s, a, b) == s.metas[a].minTime < s.metas[b].minTime

\* sort.Slice is not stable: any arrangement in which no block stands before
\* one that is less than it.
Sorted(s, blocks) ==
  {q \in [1..Len(blocks) -> Range(blocks)] :
     /\ \A i, j \in 1..Len(blocks) : i # j => q[i] # q[j]
     /\ \A i, j \in 1..Len(blocks) : i < j => ~Less(s, q[j], q[i])}

\* The listing is over: filter the available blocks, sort the candidates.
IterReturn(p) ==
  /\ loc[p].pc = "iter"
  /\ loc[p].entryIdx > Len(src.entries)
  /\ \E q \in Sorted(src, Candidates(src, loc[p].availableBlocks)) :
       /\ loc' = [loc EXCEPT ![p].pc = "candidates", ![p].candidateBlocks = q, ![p].ci = 1]
       /\ hist' = [hist EXCEPT ![p].candidates = q]
  /\ UNCHANGED <<src, dst, dst0, procs, metrics, passes, failures, fin, probe, recv, thr>>

\* The head of the loop over the candidates: the next call of
\* ensureBlockIsReplicated, or the end of the pass.
NextCandidate(p) ==
  /\ loc[p].pc = "candidates"
  /\ IF loc[p].ci > Len(loc[p].candidateBlocks)
       THEN /\ loc' = [loc EXCEPT ![p] = IdleLoc]
            /\ hist' = [hist EXCEPT ![p] = Returned(@, "ok")]
       ELSE LET b == loc[p].candidateBlocks[loc[p].ci]
            IN  /\ loc' = [loc EXCEPT ![p].pc = "getOriginMeta", ![p].id = b]
                /\ hist' = [hist EXCEPT ![p].calls = Append(@, b),
                                        ![p].call = [NoCall EXCEPT !.blk = b, !.ret = "running",
                                                       !.metaBefore = dst[MetaPath(b)],
                                                       !.before = metrics,
                                                       !.failuresBefore = failures]]
  /\ UNCHANGED <<src, dst, dst0, procs, metrics, passes, failures, fin, probe, recv, thr>>

\* ------------------------------------------------ ensureBlockIsReplicated
\* The loop of execute going on to the next candidate after an error.
BlockErrorSkipped(l) ==
  [l EXCEPT !.pc = "candidates", !.ci = @ + 1, !.id = 0,
            !.originMetaFileContent = NoObj, !.targetMetaFile = NoObj,
            !.chunkIdx = 0, !.objectName = NoPath]

\* ensureBlockIsReplicated returns an error: execute wraps it and returns.
BlockFailed(l) == IdleLoc

\* A call made by ensureBlockIsReplicated fails.
BlockFails(p) ==
  /\ CanFail
  /\ failures' = failures + 1
  /\ loc' = [loc EXCEPT ![p] = BlockFailed(@)]

\* ensureBlockIsReplicated returns nil: the loop goes on to the next block.
BlockDone(p) ==
  loc' = [loc EXCEPT ![p] = [@ EXCEPT !.pc = "candidates", !.ci = @ + 1, !.id = 0,
                               !.originMetaFileContent = NoObj, !.targetMetaFile = NoObj,
                               !.chunkIdx = 0, !.objectName = NoPath]]

\* rs.fromBkt.ReaderWithExpectedErrs(...).Get(ctx, metaFile)
GetOriginMeta(p) ==
  /\ loc[p].pc = "getOriginMeta"
  /\ \/ /\ loc' = [loc EXCEPT ![p].pc = "getTargetMeta"]
        /\ hist' = [hist EXCEPT ![p] = Touch(@, loc[p].id)]
        /\ UNCHANGED failures
     \/ /\ BlockFails(p)
        /\ hist' = [hist EXCEPT ![p] = BlockAborted(Touch(@, loc[p].id))]
  /\ UNCHANGED <<src, dst, dst0, procs, metrics, passes, fin, probe, recv, thr>>

\* rs.toBkt.Get(ctx, metaFile): a reader on the object, or nil with a
\* not-found error, which is let through (as is io.EOF, which leaves the call
\* where a not-found error or a reader leaves it); any other error is returned.
\* The reader holds the bytes the object has at this moment.
GetTargetMeta(p) ==
  /\ loc[p].pc = "getTargetMeta"
  /\ \/ /\ loc' = [loc EXCEPT ![p].pc = "readOriginMeta",
                              ![p].targetMetaFile = dst[MetaPath(loc[p].id)]]
        /\ hist' = [hist EXCEPT ![p] = Touch(@, loc[p].id)]
        /\ UNCHANGED failures
     \/ /\ BlockFails(p)
        /\ hist' = [hist EXCEPT ![p] = BlockAborted(Touch(@, loc[p].id))]
  /\ UNCHANGED <<src, dst, dst0, procs, metrics, passes, fin, probe, recv, thr>>

\* ioutil.ReadAll(originMetaFile).  Its error replaces the one of the target
\* Get, so the test that follows is on targetMetaFile != nil alone.
ReadOriginMeta(p) ==
  /\ loc[p].pc = "readOriginMeta"
  /\ \/ /\ loc' = [loc EXCEPT ![p].originMetaFileContent = SrcGet(src, MetaPath(loc[p].id)),
                              ![p].pc = IF loc[p].targetMetaFile # NoObj
                                          THEN "readTargetMeta" ELSE "iterChunks",
                              ![p].chunkIdx = 1]
        /\ UNCHANGED <<failures, hist>>
     \/ /\ BlockFails(p)
        /\ hist' = [hist EXCEPT ![p] = BlockAborted(@)]
  /\ UNCHANGED <<src, dst, dst0, procs, metrics, passes, fin, probe, recv, thr>>

\* A comparison that finds any two files equal.
AlwaysEqual(a, b) == TRUE

\* A comparison that never finds the two files equal.
NeverEqual(a, b) == FALSE

\* bytes.Equal
BytesEqual(a, b) == a = b

\* ioutil.ReadAll(targetMetaFile) and the comparison of the two meta files.
ReadTargetMeta(p) ==
  /\ loc[p].pc = "readTargetMeta"
  /\ \/ /\ IF BytesEqual(loc[p].originMetaFileContent, loc[p].targetMetaFile)
             THEN /\ metrics' = [metrics EXCEPT !.blocksAlreadyReplicated = @ + 1]
                  /\ BlockDone(p)
                  /\ hist' = [hist EXCEPT ![p].call.ret = "ok"]
             ELSE /\ loc' = [loc EXCEPT ![p].pc = "iterChunks"]
                  /\ UNCHANGED <<metrics, hist>>
        /\ UNCHANGED failures
     \/ /\ BlockFails(p)
        /\ hist' = [hist EXCEPT ![p] = BlockAborted(@)]
        /\ UNCHANGED metrics
  /\ UNCHANGED <<src, dst, dst0, procs, passes, fin, probe, recv, thr>>

\* rs.fromBkt.Iter(ctx, chunksDir, ...) gives the next chunk file to its
\* callback, or returns nil after the last one and the index file is next.
IterChunks(p) ==
  /\ loc[p].pc = "iterChunks"
  /\ loc' = [loc EXCEPT ![p].pc = "exists",
                        ![p].objectName =
                           IF loc[p].chunkIdx <= src.chunks[loc[p].id]
                             THEN ChunkPath(loc[p].id, loc[p].chunkIdx)
                             ELSE IndexPath(loc[p].id)]
  /\ hist' = [hist EXCEPT ![p].call.listed = TRUE,
                          ![p].call.order = Append(@, loc'[p].objectName),
                          ![p].call.obj = [NoObjectCall EXCEPT
                                             !.path = loc'[p].objectName,
                                             !.ret = "running"]]
  /\ UNCHANGED <<src, dst, dst0, procs, metrics, passes, failures, fin, probe, recv, thr>>

\* The listing of the chunks directory fails.
IterChunksFail(p) ==
  /\ loc[p].pc = "iterChunks"
  /\ BlockFails(p)
  /\ hist' = [hist EXCEPT ![p] =
               [BlockAborted(Touch(@, loc[p].id)) EXCEPT !.call.listed = TRUE]]
  /\ UNCHANGED <<src, dst, dst0, procs, metrics, passes, fin, probe, recv, thr>>

\* ------------------------------------------------- ensureObjectReplicated
\* A call of ensureObjectReplicated fails: recorded when it is the one for
\* the index file.
ObjectAborted(h, path) ==
  [BlockAborted(Touch(h, path.blk)) EXCEPT
     !.call.indexFailed = (path.kind = "index"),
     !.call.obj.ret = "error"]

\* The error of an object transfer dropped: the block transfer goes on.
ObjectErrorIgnored(l) ==
  IF l.objectName.kind = "chunks"
    THEN [l EXCEPT !.pc = "iterChunks", !.chunkIdx = @ + 1, !.objectName = NoPath]
    ELSE [l EXCEPT !.pc = "uploadMeta", !.objectName = NoPath]

\* ensureObjectReplicated returns an error: the listing callback or
\* ensureBlockIsReplicated wraps it and returns it.
ObjectFailed(l) == BlockFailed(l)

\* A call made by ensureObjectReplicated fails.
ObjectFails(p) ==
  /\ CanFail
  /\ failures' = failures + 1
  /\ loc' = [loc EXCEPT ![p] = ObjectFailed(@)]

\* Going on to the commit as soon as one object has been dealt with.
CommitAfterAnyObject(l) == [l EXCEPT !.pc = "uploadMeta", !.objectName = NoPath]

\* ensureObjectReplicated returned nil: back in the listing callback for a
\* chunk file, on to the upload of meta.json after the index file.
ObjectDone(l) ==
  IF l.objectName.kind = "chunks"
    THEN [l EXCEPT !.pc = "iterChunks", !.chunkIdx = @ + 1, !.objectName = NoPath]
    ELSE [l EXCEPT !.pc = "uploadMeta", !.objectName = NoPath]

\* A check that reports every object as absent.
NeverExists(bucket, path) == FALSE

\* A check that reports every object as present.
AlwaysExists(bucket, path) == TRUE

\* objstore.Bucket.Exists on a bucket.
BucketExists(bucket, path) == bucket[path] # NoObj

\* rs.toBkt.Exists(ctx, objectName)
Exists(p) ==
  /\ loc[p].pc = "exists"
  /\ LET path == loc[p].objectName
         h == [Touch(hist[p], path.blk) EXCEPT
                 !.call.exists = @ + 1,
                 !.call.obj.existed = (dst[path] # NoObj),
                 !.call.obj.held = dst[path]]
     IN  \/ /\ IF BucketExists(dst, path)
                 THEN /\ loc' = [loc EXCEPT ![p] = ObjectDone(@)]
                      /\ hist' = [hist EXCEPT ![p] =
                                   [h EXCEPT !.call.done = @ \cup {path},
                                             !.call.obj.ret = "ok"]]
                 ELSE /\ loc' = [loc EXCEPT ![p].pc = "get"]
                      /\ hist' = [hist EXCEPT ![p] = h]
            /\ UNCHANGED failures
         \/ /\ ObjectFails(p)
            /\ hist' = [hist EXCEPT ![p] = ObjectAborted(h, path)]
  /\ UNCHANGED <<src, dst, dst0, procs, metrics, passes, fin, probe, recv, thr>>

\* rs.fromBkt.Get(ctx, objectName)
GetObject(p) ==
  /\ loc[p].pc = "get"
  /\ \/ /\ loc' = [loc EXCEPT ![p].pc = "upload"]
        /\ hist' = [hist EXCEPT ![p].call.obj.read = TRUE]
        /\ UNCHANGED failures
     \/ /\ ObjectFails(p)
        /\ hist' = [hist EXCEPT ![p] =
                     ObjectAborted([@ EXCEPT !.call.obj.read = TRUE], loc[p].objectName)]
  /\ UNCHANGED <<src, dst, dst0, procs, metrics, passes, fin, probe, recv, thr>>

\* What a failed Upload may leave in the bucket: nothing of it, or the whole
\* object (the failure came after the object was stored).
AfterFailedUpload(bucket, path, content) ==
  {bucket, [bucket EXCEPT ![path] = content]}

\* The record of an Upload call on the target bucket.
Uploading(h, path) ==
  [h EXCEPT !.uploads = @ + 1,
            !.call.uploads = @ + 1,
            !.reuploaded = IF path \in h.landed THEN @ \cup {path} ELSE @,
            !.call.obj.uploaded = IF path.kind = "meta.json" THEN @ ELSE TRUE,
            !.overwritten = IF dst[path] # NoObj THEN @ \cup {path} ELSE @]

\* rs.metrics.objectsReplicated.Inc(), after the Upload of an object.
ObjectReplicated(m) == [m EXCEPT !.objectsReplicated = @ + 1]

\* The upload of meta.json counted as an object as well.
BlockReplicatedAndObject(m) ==
  [m EXCEPT !.blocksReplicated = @ + 1, !.objectsReplicated = @ + 1]

\* rs.metrics.blocksReplicated.Inc(), after the Upload of meta.json.
BlockReplicated(m) == [m EXCEPT !.blocksReplicated = @ + 1]

\* rs.toBkt.Upload(ctx, objectName, r), r streaming the origin object.
UploadObject(p) ==
  /\ loc[p].pc = "upload"
  /\ LET path == loc[p].objectName
     IN  \/ /\ dst' = [dst EXCEPT ![path] = SrcGet(src, path)]
            /\ metrics' = ObjectReplicated(metrics)
            /\ loc' = [loc EXCEPT ![p] = ObjectDone(@)]
            /\ hist' = [hist EXCEPT ![p] =
                         [Uploading(@, path) EXCEPT !.call.done = @ \cup {path},
                                                    !.call.obj.ret = "ok",
                                                    !.landed = @ \cup {path},
                                                    !.objectUploads = @ + 1]]
            /\ UNCHANGED failures
         \/ /\ ObjectFails(p)
            /\ dst' \in AfterFailedUpload(dst, path, SrcGet(src, path))
            /\ hist' = [hist EXCEPT ![p] =
                         [ObjectAborted(Uploading(@, path), path) EXCEPT
                            !.landed = IF dst' # dst THEN @ \cup {path} ELSE @]]
            /\ UNCHANGED metrics
  /\ UNCHANGED <<src, dst0, procs, passes, fin, probe, recv, thr>>

\* rs.toBkt.Upload(ctx, metaFile, bytes.NewReader(originMetaFileContent))
UploadMeta(p) ==
  /\ loc[p].pc = "uploadMeta"
  /\ LET path == MetaPath(loc[p].id)
         h == [Uploading(hist[p], path) EXCEPT !.call.metaUpload = TRUE]
     IN  \/ /\ dst' = [dst EXCEPT ![path] = loc[p].originMetaFileContent]
            /\ metrics' = BlockReplicated(metrics)
            /\ BlockDone(p)
            /\ hist' = [hist EXCEPT ![p] =
                         [h EXCEPT !.commits = Append(@, loc[p].id), !.call.ret = "ok",
                                   !.landed = @ \cup {path},
                                   !.metaUploads = @ + 1]]
            /\ UNCHANGED failures
         \/ /\ BlockFails(p)
            /\ dst' \in AfterFailedUpload(dst, path, loc[p].originMetaFileContent)
            /\ hist' = [hist EXCEPT ![p] =
                         [BlockAborted(h) EXCEPT
                            !.landed = IF dst' # dst THEN @ \cup {path} ELSE @]]
            /\ UNCHANGED metrics
  /\ UNCHANGED <<src, dst0, procs, passes, fin, probe, recv, thr>>

\* ------------------------------------------------------------ the system
Next ==
  \E p \in Procs :
    \/ StartPass(p)
    \/ IterEntry(p)
    \/ IterFail(p)
    \/ IterReturn(p)
    \/ NextCandidate(p)
    \/ GetOriginMeta(p)
    \/ GetTargetMeta(p)
    \/ ReadOriginMeta(p)
    \/ ReadTargetMeta(p)
    \/ IterChunks(p)
    \/ IterChunksFail(p)
    \/ Exists(p)
    \/ GetObject(p)
    \/ UploadObject(p)
    \/ UploadMeta(p)

Spec == Init /\ [][Next]_vars

\* ---------------------------------------------------------------- claims
\* The target bucket holds a meta.json for block b with the bytes of the
\* origin's.
Committed(b) ==
  /\ b \in DOMAIN src.metas
  /\ dst[MetaPath(b)] = SrcGet(src, MetaPath(b))

ObjectPaths(b) == {ChunkPath(b, k) : k \in 1..src.chunks[b]} \cup {IndexPath(b)}

\* The target bucket holds every chunk file and the index file of block b.
Complete(b) == \A path \in ObjectPaths(b) : dst[path] # NoObj

\* The blocks a pass without failure takes as candidates.
ExpectedCandidates ==
  IF src.syncNotFound THEN {}
  ELSE {b \in DOMAIN src.metas :
          Cardinality(src.metas[b].labels) # 0 /\ blockFilter(src, src.metas[b])}

Ran(p) == p \in procs /\ hist[p].result # "none"

\* C1: commit-last.  Starting from an empty target bucket, in every state
\* reached by any sequence of passes, aborted ones included, a meta.json in the
\* target that equals the origin's comes with every chunk file and the index
\* file of its block; and within one ensureBlockIsReplicated call meta.json is
\* uploaded only after the transfer of every chunk file and of the index file has
\* returned success.
C1_CommitLast ==
  /\ dst0 = EmptyBucket(src) =>
       \A b \in DOMAIN src.metas : Committed(b) => Complete(b)
  /\ \A p \in procs :
       (loc[p].pc = "uploadMeta" \/ hist[p].call.metaUpload) =>
         hist[p].call.done = ObjectPaths(hist[p].call.blk)

\* C1 witness: after a failed call, a block with two chunk files is committed
\* in a bucket that was empty.
C1_Witness ==
  /\ dst0 = EmptyBucket(src)
  /\ failures > 0
  /\ \E b \in DOMAIN src.metas : src.chunks[b] = 2 /\ Committed(b) /\ Complete(b)
  /\ \E p \in procs : hist[p].call.metaUpload /\ hist[p].call.ret = "ok"

\* C2 as stated: a failure of the index transfer makes
\* ensureBlockIsReplicated return an error without uploading meta.json, and
\* the target bucket then has no meta.json for that block.
C2_NoMetaAfterIndexFailure ==
  \A p \in procs :
    hist[p].call.indexFailed =>
      /\ hist[p].call.ret = "error"
      /\ ~hist[p].call.metaUpload
      /\ dst[MetaPath(hist[p].call.blk)] = NoObj

\* C2 amended: a failure of the index transfer makes ensureBlockIsReplicated
\* return an error without uploading meta.json, and the target bucket's
\* meta.json for that block is then what it was before the call: absent if it
\* was absent, and never equal to the origin's.
C2_MetaUntouchedAfterIndexFailure ==
  \A p \in procs :
    hist[p].call.indexFailed =>
      /\ hist[p].call.ret = "error"
      /\ hist[p].result = "error"
      /\ ~hist[p].call.metaUpload
      /\ dst[MetaPath(hist[p].call.blk)] = hist[p].call.metaBefore
      /\ ~Committed(hist[p].call.blk)
      /\ dst0 = EmptyBucket(src) => dst[MetaPath(hist[p].call.blk)] = NoObj

\* C2 witness: the index transfer failed after a chunk file of the block had
\* been uploaded by the same call.
C2_Witness ==
  \E p \in procs :
    /\ hist[p].call.indexFailed
    /\ hist[p].call.done # {}
    /\ \E path \in hist[p].call.done : hist[p].startDst[path] = NoObj /\ dst[path] # NoObj

\* C3: when a pass has succeeded, the next pass makes no Upload call and
\* leaves the target bucket as the first one left it.
C3_Idempotent ==
  \A p \in procs :
    (Ran(p) /\ hist[p].prevResult = "ok") =>
      /\ hist[p].uploads = 0
      /\ dst = hist[p].startDst

\* C3 witness: the second pass has ended with success after a first pass that
\* replicated blocks, and found them already replicated.
C3_Witness ==
  \E p \in procs :
    /\ hist[p].prevResult = "ok"
    /\ hist[p].result = "ok"
    /\ metrics.blocksReplicated >= 2
    /\ metrics.blocksAlreadyReplicated >= 2

\* C4: within a pass the calls of ensureBlockIsReplicated, and the commits,
\* are in non-decreasing order of MinTime, and a block is handed to
\* ensureBlockIsReplicated only after every candidate with a smaller MinTime.
C4_Ordering ==
  \A p \in procs :
    LET calls == hist[p].calls
        commits == hist[p].commits
        mt(b) == src.metas[b].minTime
    IN  /\ \A i, j \in 1..Len(calls) : i < j => mt(calls[i]) <= mt(calls[j])
        /\ \A i, j \in 1..Len(commits) : i < j => mt(commits[i]) <= mt(commits[j])
        /\ \A i \in 1..Len(calls) :
             \A j \in 1..Len(hist[p].candidates) :
               mt(hist[p].candidates[j]) < mt(calls[i]) =>
                 \E k \in 1..(i - 1) : calls[k] = hist[p].candidates[j]

\* C4 witness: three blocks listed in another order than that of their
\* MinTime have been committed in one pass.
C4_Witness ==
  \E p \in procs :
    /\ hist[p].commits = <<2, 3, 1>>
    /\ loc[p].availableBlocks = <<1, 2, 3>>

\* The paths of the objects of a block.
BlockPaths(b) == {path \in Paths(src) : path.blk = b}

\* C5: fail-fast.  When ensureBlockIsReplicated fails for a candidate, execute
\* returns an error and no candidate sorted after it is attempted: no call is
\* made for any of their objects, and what the target bucket holds of them is
\* what it held when the pass started.
C5_FailFast ==
  \A p \in procs :
    hist[p].failedBlock # 0 =>
      LET cands == hist[p].candidates
      IN  /\ hist[p].result = "error"
          /\ loc[p].pc = "idle"
          /\ \E i \in 1..Len(cands) :
               /\ cands[i] = hist[p].failedBlock
               /\ hist[p].calls = SubSeq(cands, 1, i)
               /\ \A j \in (i + 1)..Len(cands) :
                    /\ cands[j] \notin hist[p].touched
                    /\ \A path \in BlockPaths(cands[j]) : dst[path] = hist[p].startDst[path]

\* C5 witness: the first of three candidates failed after one of its objects
\* had been uploaded.
C5_Witness ==
  \E p \in procs :
    /\ Len(hist[p].candidates) = 3
    /\ hist[p].failedBlock = hist[p].candidates[1]
    /\ hist[p].uploads > 0
    /\ \E path \in BlockPaths(hist[p].failedBlock) : dst[path] # hist[p].startDst[path]

\* No block was committed in the target bucket without all of its objects
\* before the first pass.
NoEarlyCommit ==
  \A b \in DOMAIN src.metas :
    dst0[MetaPath(b)] = SrcGet(src, MetaPath(b)) =>
      \A path \in ObjectPaths(b) : dst0[path] # NoObj

AllCommitted == \A b \in ExpectedCandidates : Committed(b) /\ Complete(b)

\* C6 as stated: whatever the aborted passes before it, a pass in which no call
\* fails ends with every candidate block committed: all of its chunk files, its
\* index file and a meta.json equal to the origin's are in the target bucket.
C6_CleanPassCommitsAll ==
  \A p \in procs : hist[p].result = "ok" => AllCommitted

\* C6 amended: the same, for a target bucket that before the first pass held
\* no meta.json equal to the origin's for a block with a chunk file or the
\* index file missing (an empty bucket, for one); and then, when failures stop
\* and the pass is invoked again, every candidate block is eventually
\* committed.
C6_Resumable ==
  /\ [](NoEarlyCommit => C6_CleanPassCommitsAll)
  /\ (NoEarlyCommit => <>AllCommitted)

\* C6 witness: after two aborted passes a third pass has ended with success
\* and three blocks are committed in a bucket that was empty.
C6_Witness ==
  /\ dst0 = EmptyBucket(src)
  /\ failures = 2
  /\ passes = 3
  /\ Cardinality(ExpectedCandidates) = 3
  /\ \E p \in procs : hist[p].result = "ok" /\ ~hist[p].failed
  /\ AllCommitted

\* C7 as stated: every Upload of a pass is to a path at which the target
\* bucket holds no object, and no object of the target bucket is removed.
C7_NeverOverwrites ==
  \A p \in procs :
    Ran(p) =>
      /\ hist[p].overwritten = {}
      /\ \A path \in Paths(src) : hist[p].startDst[path] # NoObj => dst[path] # NoObj

\* C7 amended: no object of the target bucket is removed; no chunk file or
\* index file is uploaded to a path that holds an object, so that these keep
\* their bytes; a meta.json is uploaded over an existing one only when the
\* existing one differs from the origin's, which does not happen when the
\* target bucket was empty before the first pass.
C7_AppendOnlyButStaleMeta ==
  /\ \A path \in Paths(src) :
       dst0[path] # NoObj =>
         /\ dst[path] # NoObj
         /\ path.kind # "meta.json" => dst[path] = dst0[path]
  /\ \A p \in procs :
       Ran(p) =>
         /\ \A path \in hist[p].overwritten :
              /\ path.kind = "meta.json"
              /\ hist[p].startDst[path] # SrcGet(src, path)
         /\ dst0 = EmptyBucket(src) => hist[p].overwritten = {}

\* C7 witness: a pass skipped a chunk file that was in the target bucket,
\* uploaded the missing objects and replaced the older meta.json.
C7_Witness ==
  \E p \in procs :
    /\ hist[p].result = "ok"
    /\ hist[p].overwritten # {}
    /\ hist[p].uploads >= 2
    /\ \E path \in Paths(src) : dst[path] = "trunc"

\* C9: a block directory that loadMeta reports as partial (the fetch reports
\* sync-meta-not-found, or the identifier is absent from the mapping) is
\* skipped whatever error comes with the flag: it is counted once in
\* originPartialMeta, is no available or candidate block, no call is made for
\* its objects, the pass does not fail on it, and the other blocks are still
\* replicated by the pass.
C9_PartialSkipped ==
  \A p \in procs :
    Ran(p) =>
      /\ hist[p].lastLoad.partial =>
           /\ hist[p].lastVisit = "partial"
           /\ hist[p].hardAt = 0
      /\ metrics.originPartialMeta = hist[p].partialCount + Cardinality(hist[p].partial)
      /\ \A b \in hist[p].partial :
           /\ b \notin Range(loc[p].availableBlocks)
           /\ b \notin Range(hist[p].candidates)
           /\ b \notin Range(hist[p].calls)
           /\ b \notin hist[p].touched
           /\ \A path \in BlockPaths(b) : dst[path] = hist[p].startDst[path]
      /\ (hist[p].result = "ok" /\ ~src.syncNotFound) =>
           /\ hist[p].partial = BlockIds(src) \ DOMAIN src.metas
           /\ Range(hist[p].calls) = ExpectedCandidates
           /\ \A b \in ExpectedCandidates : Committed(b)

\* C9 witness: a pass has ended with success, having skipped the block whose
\* meta.json is missing and committed the two other blocks.
C9_Witness ==
  \E p \in procs :
    /\ hist[p].result = "ok"
    /\ hist[p].partial = {2}
    /\ Len(hist[p].commits) = 2
    /\ metrics.originPartialMeta >= 1

\* C10: a hard failure of the metadata fetch aborts the pass at once: execute
\* returns an error, the callback is called for no further entry, no block is
\* handed to ensureBlockIsReplicated, no call is made on the target bucket and
\* the target bucket is as it was when the pass started, also when blocks were
\* found available before the failure.
C10_HardFetchErrorAborts ==
  \A p \in procs :
    hist[p].hardAt # 0 =>
      /\ hist[p].result = "error"
      /\ loc[p].pc = "idle"
      /\ hist[p].visited = hist[p].hardAt
      /\ hist[p].candidates = <<>>
      /\ hist[p].calls = <<>>
      /\ hist[p].touched = {}
      /\ hist[p].uploads = 0
      /\ dst = hist[p].startDst

\* C10 witness: the fetch failed for the last entry of the listing, after two
\* blocks had been found available.
C10_Witness ==
  \E p \in procs :
    /\ hist[p].hardAt = Len(src.entries)
    /\ hist[p].available = 2
    /\ hist[p].result = "error"

\* C11: a block whose external label map is empty is never an available or
\* candidate block and is never transferred, also when rs.blockFilter would
\* accept it: no call is made for its objects and the target bucket keeps what
\* it held of them; and the pass does not fail because of it (a pass fails
\* only when a call fails).
C11_NoLabelsNeverReplicated ==
  \A p \in procs :
    Ran(p) =>
      /\ \A b \in DOMAIN src.metas :
           src.metas[b].labels = {} =>
             /\ b \notin Range(loc[p].availableBlocks)
             /\ b \notin Range(hist[p].candidates)
             /\ b \notin Range(hist[p].calls)
             /\ b \notin hist[p].touched
             /\ \A path \in BlockPaths(b) : dst[path] = dst0[path]
      /\ hist[p].lastVisit = "nolabels" => hist[p].hardAt = 0
      /\ failures = 0 => hist[p].result # "error"

\* C11 witness: a pass whose filter function accepts every block has ended
\* with success, having skipped the block without labels and committed the
\* other one.
C11_Witness ==
  \E p \in procs :
    /\ src.blockFilter = "acceptAll"
    /\ \E b \in DOMAIN src.metas : src.metas[b].labels = {} /\ blockFilter(src, src.metas[b])
    /\ hist[p].result = "ok"
    /\ hist[p].commits = <<1>>

\* The steps of ensureBlockIsReplicated up to the comparison of the two
\* meta.json files.
MetaSteps == {"getOriginMeta", "getTargetMeta", "readOriginMeta", "readTargetMeta"}

\* The call of ensureBlockIsReplicated found in the target bucket a meta.json
\* with the bytes of the origin's.
SameMetaBefore(c) ==
  c.blk # 0 /\ c.metaBefore # NoObj /\ c.metaBefore = SrcGet(src, MetaPath(c.blk))

\* C12: a call of ensureBlockIsReplicated for a block whose meta.json in the
\* target bucket is byte-equal to the origin's never leaves the reading and
\* comparing of the two meta files: it makes no Exists call, does not list
\* the chunks, makes no Upload call and leaves the bucket as it is; it fails
\* only by an injected failure, and when it has returned nil
\* blocksAlreadyReplicated is one more than before the call and
\* blocksReplicated and objectsReplicated are what they were, whether or not
\* the chunk and index files of the block are in the target bucket.
C12_AlreadyReplicatedShortCircuit ==
  \A p \in procs :
    LET c == hist[p].call
    IN  SameMetaBefore(c) =>
          /\ c.exists = 0
          /\ ~c.listed
          /\ c.uploads = 0
          /\ c.done = {}
          /\ \A path \in BlockPaths(c.blk) : dst[path] = hist[p].startDst[path]
          /\ c.ret = "running" => loc[p].pc \in MetaSteps
          /\ c.ret = "error" => failures > c.failuresBefore
          /\ c.ret = "ok" =>
               /\ metrics.blocksAlreadyReplicated = c.before.blocksAlreadyReplicated + 1
               /\ metrics.blocksReplicated = c.before.blocksReplicated
               /\ metrics.objectsReplicated = c.before.objectsReplicated

\* C12 witness: such a call has returned nil for a block of which a chunk or
\* the index file is missing from the target bucket.
C12_Witness ==
  \E p \in procs :
    /\ SameMetaBefore(hist[p].call)
    /\ hist[p].call.ret = "ok"
    /\ ~Complete(hist[p].call.blk)

\* C13: ensureObjectReplicated looks at existence only.  When the target
\* bucket holds the path at the Exists call, the call neither reads the origin
\* object nor uploads, fails only if the Exists call fails, and leaves under
\* the path what was there, also when that differs from the origin object;
\* when the path is absent and the call returns nil, the target bucket holds
\* under the same path the content of the origin object.
C13_ExistenceOnly ==
  \A p \in procs :
    LET c == hist[p].call
        o == c.obj
    IN  /\ (o.ret \in {"ok", "error"} /\ o.existed) =>
             /\ ~o.read
             /\ ~o.uploaded
             /\ dst[o.path] = o.held
             /\ o.ret = "error" => failures > c.failuresBefore
        /\ (o.ret = "ok" /\ ~o.existed) =>
             /\ o.read
             /\ o.uploaded
             /\ dst[o.path] = SrcGet(src, o.path)

\* C13 witness: a call has returned nil for a path under which the target
\* bucket holds a truncated object, and it is still there.
C13_Witness ==
  \E p \in procs :
    LET o == hist[p].call.obj
    IN  /\ o.ret = "ok"
        /\ o.existed
        /\ o.held = "trunc"
        /\ dst[o.path] # SrcGet(src, o.path)

\* The pass of p follows a pass that returned nil, over the same origin.
SecondPass(p) == hist[p].prevResult = "ok" /\ hist[p].result # "none"

\* The block directories among the first n entries of the origin listing.
DirsVisited(s, n) == Cardinality({i \in 1..n : s.entries[i].dir})

\* C14 as stated: during a pass run after a successful pass no counter other
\* than blocksAlreadyReplicated changes.
C14_OnlyAlreadyReplicatedChanges ==
  \A p \in procs :
    SecondPass(p) =>
      /\ metrics.originIterations = hist[p].startMetrics.originIterations
      /\ metrics.originMetaLoads = hist[p].startMetrics.originMetaLoads
      /\ metrics.originPartialMeta = hist[p].startMetrics.originPartialMeta
      /\ metrics.blocksReplicated = hist[p].startMetrics.blocksReplicated
      /\ metrics.objectsReplicated = hist[p].startMetrics.objectsReplicated

\* C14 amended: during a pass run after a successful pass nothing is uploaded
\* and blocksReplicated and objectsReplicated keep their values;
\* blocksAlreadyReplicated rises by one for each call of
\* ensureBlockIsReplicated that returns nil, which is once per candidate when
\* the pass succeeds; and the counters of the listing rise as in any pass:
\* originIterations by the entries visited, originMetaLoads by the block
\* directories among them, originPartialMeta by those found partial.
C14_SecondPassCounters ==
  \A p \in procs :
    SecondPass(p) =>
      LET m0 == hist[p].startMetrics
          h == hist[p]
          returned == Len(h.calls) - (IF h.call.ret \in {"running", "error"} THEN 1 ELSE 0)
      IN  /\ h.uploads = 0
          /\ metrics.blocksReplicated = m0.blocksReplicated
          /\ metrics.objectsReplicated = m0.objectsReplicated
          /\ metrics.blocksAlreadyReplicated = m0.blocksAlreadyReplicated + returned
          /\ h.result = "ok" =>
               metrics.blocksAlreadyReplicated =
                 m0.blocksAlreadyReplicated + Cardinality(ExpectedCandidates)
          /\ metrics.originIterations = m0.originIterations + h.visited
          /\ metrics.originMetaLoads = m0.originMetaLoads + DirsVisited(src, h.visited)
          /\ metrics.originPartialMeta = m0.originPartialMeta + Cardinality(h.partial)

\* C14 witness: a second pass has ended with success, having counted a block
\* as already replicated and the entries of the listing once more.
C14_Witness ==
  \E p \in procs :
    /\ SecondPass(p)
    /\ hist[p].result = "ok"
    /\ metrics.blocksAlreadyReplicated > hist[p].startMetrics.blocksAlreadyReplicated
    /\ metrics.originIterations > hist[p].startMetrics.originIterations
    /\ metrics.originMetaLoads > hist[p].startMetrics.originMetaLoads

\* C17: starting from an empty target bucket, over any sequence of passes,
\* failed ones included, Upload is never called for a path under which an
\* earlier Upload, of this pass or of an earlier one, stored the object: each
\* chunk file, index file and meta.json is uploaded at most once, and what the
\* target bucket holds is what those uploads stored.
C17_ExactlyOnce ==
  \A p \in procs :
    dst0 = EmptyBucket(src) =>
      /\ hist[p].reuploaded = {}
      /\ hist[p].overwritten = {}
      /\ {path \in Paths(src) : dst[path] # NoObj} = hist[p].landed
      /\ \A path \in hist[p].landed : dst[path] = SrcGet(src, path)

\* C17 witness: from an empty target bucket, a pass that follows a failed pass
\* which had stored objects has ended with success, every candidate committed.
C17_Witness ==
  \E p \in procs :
    /\ dst0 = EmptyBucket(src)
    /\ hist[p].prevResult = "error"
    /\ hist[p].result = "ok"
    /\ hist[p].uploads > 0
    /\ hist[p].uploads < Cardinality(hist[p].landed)
    /\ hist[p].commits # <<>>

\* The call of ensureBlockIsReplicated found in the target bucket a meta.json
\* whose bytes differ from the origin's.
StaleMetaBefore(c) ==
  c.blk # 0 /\ c.metaBefore # NoObj /\ c.metaBefore # SrcGet(src, MetaPath(c.blk))

\* The chunk files of block b in the order of their listing, then the index.
TransferOrder(b) ==
  [k \in 1..(src.chunks[b] + 1) |->
     IF k <= src.chunks[b] THEN ChunkPath(b, k) ELSE IndexPath(b)]

\* C18: a call of ensureBlockIsReplicated for a block whose meta.json in the
\* target bucket differs from the origin's does not count the block as
\* already replicated.  It uploads meta.json only after ensureObjectReplicated
\* returned nil for every chunk file and then for the index file; it fails
\* only by an injected failure; and when it has returned nil, the object
\* transfers were made for every chunk file in turn and then the index, the
\* meta.json of the target bucket is byte-equal to the origin's,
\* blocksReplicated is one more than before the call and
\* blocksAlreadyReplicated is what it was.
C18_StaleMarkerReplaced ==
  \A p \in procs :
    LET c == hist[p].call
    IN  StaleMetaBefore(c) =>
          /\ metrics.blocksAlreadyReplicated = c.before.blocksAlreadyReplicated
          /\ c.metaUpload =>
               /\ c.done = ObjectPaths(c.blk)
               /\ c.order = TransferOrder(c.blk)
          /\ c.ret = "error" => failures > c.failuresBefore
          /\ c.ret = "ok" =>
               /\ c.order = TransferOrder(c.blk)
               /\ c.done = ObjectPaths(c.blk)
               /\ Complete(c.blk)
               /\ c.metaUpload
               /\ c.uploads >= 1
               /\ dst[MetaPath(c.blk)] = SrcGet(src, MetaPath(c.blk))
               /\ metrics.blocksReplicated = c.before.blocksReplicated + 1

\* C18 witness: such a call has returned nil, the older meta.json replaced.
C18_Witness ==
  \E p \in procs :
    /\ StaleMetaBefore(hist[p].call)
    /\ hist[p].call.metaBefore = "meta.v1"
    /\ hist[p].call.ret = "ok"
    /\ dst[MetaPath(hist[p].call.blk)] = "meta.v2"

\* C19 as stated: the increase of originIterations during a pass is the
\* number of block directories the listing callback was called for.
C19_IterationsCountBlockDirs ==
  \A p \in procs :
    Ran(p) =>
      metrics.originIterations =
        hist[p].startMetrics.originIterations + DirsVisited(src, hist[p].visited)

\* C19 amended: originIterations is incremented once for every top-level
\* entry the listing callback is called for, whether or not its name parses
\* as a block directory; it is originMetaLoads that is incremented once for
\* each block directory among them.
C19_IterationsCountEntries ==
  \A p \in procs :
    Ran(p) =>
      /\ metrics.originIterations =
           hist[p].startMetrics.originIterations + hist[p].visited
      /\ metrics.originMetaLoads =
           hist[p].startMetrics.originMetaLoads + DirsVisited(src, hist[p].visited)
      /\ hist[p].result = "ok" =>
           metrics.originIterations =
             hist[p].startMetrics.originIterations + Len(src.entries)

\* C19 witness: a pass over an origin with an entry that is no block directory
\* has ended with success, having counted more iterations than meta loads.
C19_Witness ==
  \E p \in procs :
    /\ hist[p].result = "ok"
    /\ \E i \in 1..Len(src.entries) : ~src.entries[i].dir
    /\ \E i \in 1..Len(src.entries) : src.entries[i].dir
    /\ metrics.originIterations - hist[p].startMetrics.originIterations
         > metrics.originMetaLoads - hist[p].startMetrics.originMetaLoads

\* The six counters.
CounterNames == DOMAIN newReplicationMetrics

\* A count kept per execution, over all executions.
Total(count) == count[1] + count[2]

\* The accounting of the counters in a state.
CountersAccounted ==
  /\ \A c \in CounterNames : metrics[c] >= 0
  /\ metrics.objectsReplicated = Total([p \in Procs |-> hist[p].objectUploads])
  /\ metrics.blocksReplicated = Total([p \in Procs |-> hist[p].metaUploads])
  /\ metrics.objectsReplicated <=
       Cardinality({path \in Paths(src) : path.kind # "meta.json" /\ dst[path] # dst0[path]})
  /\ metrics.blocksReplicated <=
       Cardinality({b \in BlockIds(src) : dst[MetaPath(b)] # dst0[MetaPath(b)]})
  /\ failures = 0 =>
       /\ metrics.objectsReplicated =
            Cardinality({path \in Paths(src) : path.kind # "meta.json" /\ dst[path] # dst0[path]})
       /\ metrics.blocksReplicated =
            Cardinality({b \in BlockIds(src) : dst[MetaPath(b)] # dst0[MetaPath(b)]})
  /\ \A p \in procs :
       LET c == hist[p].call
           already == metrics.blocksAlreadyReplicated - c.before.blocksAlreadyReplicated
           replicated == metrics.blocksReplicated - c.before.blocksReplicated
       IN  c.blk # 0 =>
             /\ already \in {0, 1} /\ replicated \in {0, 1}
             /\ already + replicated <= 1
             /\ c.ret \in {"running", "error"} => already = 0 /\ replicated = 0
             /\ c.ret = "ok" => already + replicated = 1
             /\ (c.obj.ret = "ok" /\ c.obj.existed /\ c.uploads = 0) =>
                  metrics.objectsReplicated = c.before.objectsReplicated

\* No step lowers a counter.
CountersMonotonic == \A c \in CounterNames : metrics'[c] >= metrics[c]

\* C20: no step lowers any of the six counters; objectsReplicated is the
\* number of Upload calls for chunk and index files that returned nil (none
\* for an object that was already there, for a copy that failed, or for
\* meta.json); blocksReplicated is the number of Upload calls for meta.json
\* that returned nil; and a call of ensureBlockIsReplicated increments exactly
\* one of blocksAlreadyReplicated and blocksReplicated, by one, when it
\* returns nil, and neither of them when it fails.
C20_CounterAccounting == []CountersAccounted /\ [][CountersMonotonic]_vars

\* C20 witness: in one run an object was found present and skipped, an object
\* was uploaded, a call failed, a block was counted as replicated and a block
\* as already replicated.
C20_Witness ==
  \E p \in procs :
    /\ failures > 0
    /\ metrics.objectsReplicated > 0
    /\ metrics.objectsReplicated <
         Cardinality({path \in Paths(src) : path.kind # "meta.json" /\ dst[path] # NoObj})
    /\ metrics.blocksReplicated > 0
    /\ metrics.blocksAlreadyReplicated > 0
    /\ hist[p].result = "ok"

\* The pass re-invoked by its scheduler, every started call returning.
SpecLive == Init /\ [][Next]_vars /\ WF_vars(Next)

\* ------------------------------------------- BlockFilter.Filter on its own
LabelRegionEU == {<<"region", "eu">>}

LabelSets == {{}, LabelsX, LabelsY, LabelRegionEU, LabelsX \cup LabelRegionEU}

Selectors ==
  { <<>>, SelectX, SelectNotY,
    SelectX \o << [type |-> "=", name |-> "region", value |-> "eu"] >>,
    << [type |-> "=", name |-> "cluster", value |-> ""] >>,
    << [type |-> "!=", name |-> "region", value |-> ""] >> }

Descriptors ==
  {Meta(1, 10, ls, res, lvl) :
     ls \in LabelSets, res \in ResolutionLevels, lvl \in 1..MaxCompactionLevel}

Filters ==
  {NewBlockFilter(sel, rl, cl) :
     sel \in Selectors,
     rl \in {{}, {0}, {0, 300000}, ResolutionLevels},
     cl \in {{}, {1}, {1, 2}, {2, MaxCompactionLevel}}}

InitFilter ==
  /\ src = SrcOrdered
  /\ dst = EmptyBucket(src)
  /\ dst0 = dst
  /\ procs = {}
  /\ fin \in [bf : Filters, b : Descriptors, res : {"none"}]
  /\ probe = ZeroProber
  /\ recv = NoReceive
  /\ thr = NoThreads
  /\ InitCommon

\* bf.Filter(b) is called and returns.
ApplyFilter ==
  /\ fin.res = "none"
  /\ fin' = [fin EXCEPT !.res = IF Filter(fin.bf, fin.b) THEN "accepted" ELSE "rejected"]
  /\ UNCHANGED <<src, dst, dst0, procs, loc, metrics, passes, failures, hist, probe, recv, thr>>

NextFilter == ApplyFilter

SpecFilter == InitFilter /\ [][NextFilter]_vars

\* The four rules of the filter, one by one.
Rule(i, bf, b) ==
  CASE i = 1 -> b.labels # {}
    [] i = 2 -> \A k \in 1..Len(bf.labelSelector) :
                  LET m == bf.labelSelector[k]
                      v == IF \E l \in b.labels : l[1] = m.name
                             THEN (CHOOSE l \in b.labels : l[1] = m.name)[2] ELSE ""
                  IN  (m.type = "=" /\ v = m.value) \/ (m.type = "!=" /\ v # m.value)
    [] i = 3 -> b.resolution \in bf.resolutionLevels
    [] i = 4 -> b.level \in bf.compactionLevels

\* The rules evaluated in a given order, the first that fails rejecting.
RECURSIVE InOrder(_, _, _)
InOrder(order, bf, b) ==
  IF order = <<>> THEN TRUE
  ELSE IF ~Rule(Head(order), bf, b) THEN FALSE
  ELSE InOrder(Tail(order), bf, b)

healthyEndpointPath == "/-/healthy"
readyEndpointPath == "/-/ready"

Components == {"sidecar", "receive"}

\* The errors given to SetNotReady and SetNotHealthy.
Errs == {NilErr, <<"context", "canceled">>}

\* SetNotReady writing the error to both fields.
SetNotReadyBothFields(pr, err) == [pr EXCEPT !.readiness = err, !.healthiness = err]

\* p.readiness = err, under readyMtx.
SetNotReady(pr, err) == [pr EXCEPT !.readiness = err]

\* SetNotHealthy that keeps the old cause when given a new one.
SetNotHealthyKeepsCause(pr, err) ==
  [pr EXCEPT !.healthiness = IF err # NilErr /\ @ # NilErr THEN @ ELSE err]

\* p.healthiness = err, under healthyMtx.
SetNotHealthy(pr, err) == [pr EXCEPT !.healthiness = err]

SetReady(pr) == SetNotReady(pr, NilErr)

SetHealthy(pr) == SetNotHealthy(pr, NilErr)

IsReady(pr) == pr.readiness

IsHealthy(pr) == pr.healthiness

\* NewProber: both states are set to the initial error.
NewProber(component) ==
  LET initialErr == InitialErr(component)
      prober == [ZeroProber EXCEPT !.component = component]
  IN  SetNotReady(SetNotHealthy(prober, initialErr), initialErr)

\* The two handlers with their probe functions exchanged.
RegisterSwapped(path) ==
  IF path = healthyEndpointPath
    THEN [probeFunc |-> "IsReady", probeType |-> "healthy"]
    ELSE [probeFunc |-> "IsHealthy", probeType |-> "ready"]

\* RegisterInMux, RegisterInRouter: the probe function and the probe type of
\* the handler of each path.
RegisterInMux(path) ==
  IF path = healthyEndpointPath
    THEN [probeFunc |-> "IsHealthy", probeType |-> "healthy"]
    ELSE [probeFunc |-> "IsReady", probeType |-> "ready"]

\* err := probeFunc()
CallProbeFunc(pr, probeFunc) ==
  IF probeFunc = "IsHealthy" THEN IsHealthy(pr) ELSE IsReady(pr)

\* A handler that answers an error with the status of success.
ProbeResponseNoStatus(pr, err, probeType) ==
  IF err = NilErr
    THEN [status |-> 200, body |-> <<"thanos", pr.component, "is", probeType>>]
    ELSE [status |-> 200,
          body |-> <<"thanos", pr.component, "is not", probeType, "Reason:">> \o err]

\* What the handler writes: the text of success with the status a first
\* write gives, or http.Error with probeErrorHTTPStatus and the error's text,
\* in errorProbeText or as it is.
ProbeResponse(pr, err, probeType) ==
  IF err = NilErr
    THEN [status |-> 200, body |-> <<"thanos", pr.component, "is", probeType>>]
    ELSE [status |-> 500,
          body |-> IF pr.variant = "errorProbeText"
                     THEN <<"thanos", pr.component, "is not", probeType, "Reason:">> \o err
                     ELSE err]

InitProber ==
  /\ src = SrcOrdered
  /\ dst = EmptyBucket(src)
  /\ dst0 = dst
  /\ procs = {}
  /\ fin = NoFilterInput
  /\ InitCommon
  /\ \E component \in Components, variant \in {"errorProbeText", "err.Error()"} :
       probe = [NewProber(component) EXCEPT
                  !.variant = variant,
                  !.lastReady = [op |-> "NewProber", err |-> InitialErr(component)],
                  !.lastHealthy = [op |-> "NewProber", err |-> InitialErr(component)]]
  /\ recv = NoReceive
  /\ thr = NoThreads

ReplicationUnchanged ==
  UNCHANGED <<src, dst, dst0, procs, loc, metrics, passes, failures, hist, fin>>

CallSetReady ==
  /\ probe' = [SetReady(probe) EXCEPT
                 !.lastReady = [op |-> "SetReady", err |-> NilErr],
                 !.setReady = TRUE]
  /\ ReplicationUnchanged
  /\ UNCHANGED <<recv, thr>>

CallSetNotReady ==
  /\ \E err \in Errs :
       probe' = [SetNotReady(probe, err) EXCEPT
                   !.lastReady = [op |-> "SetNotReady", err |-> err]]
  /\ ReplicationUnchanged
  /\ UNCHANGED <<recv, thr>>

CallSetHealthy ==
  /\ probe' = [SetHealthy(probe) EXCEPT
                 !.lastHealthy = [op |-> "SetHealthy", err |-> NilErr],
                 !.setHealthy = TRUE]
  /\ ReplicationUnchanged
  /\ UNCHANGED <<recv, thr>>

CallSetNotHealthy ==
  /\ \E err \in Errs :
       probe' = [SetNotHealthy(probe, err) EXCEPT
                   !.lastHealthy = [op |-> "SetNotHealthy", err |-> err]]
  /\ ReplicationUnchanged
  /\ UNCHANGED <<recv, thr>>

CallIsReady ==
  /\ probe' = [probe EXCEPT !.isReady = [ret |-> IsReady(probe),
                                         after |-> probe.lastReady,
                                         set |-> probe.setReady]]
  /\ ReplicationUnchanged
  /\ UNCHANGED <<recv, thr>>

CallIsHealthy ==
  /\ probe' = [probe EXCEPT !.isHealthy = [ret |-> IsHealthy(probe),
                                           after |-> probe.lastHealthy,
                                           set |-> probe.setHealthy]]
  /\ ReplicationUnchanged
  /\ UNCHANGED <<recv, thr>>

\* A GET arrives on one of the two paths and the handler calls its probeFunc.
ProbeCall ==
  /\ \E r \in Reqs, path \in {healthyEndpointPath, readyEndpointPath} :
       /\ probe.reqs[r].pc \in {"idle", "done"}
       /\ probe' = [probe EXCEPT !.reqs[r] =
                      [NoReq EXCEPT
                         !.pc = "called",
                         !.path = path,
                         !.err = CallProbeFunc(probe, RegisterInMux(path).probeFunc),
                         !.seen = IF path = readyEndpointPath
                                    THEN probe.readiness ELSE probe.healthiness,
                         !.after = IF path = readyEndpointPath
                                     THEN probe.lastReady ELSE probe.lastHealthy]]
  /\ ReplicationUnchanged
  /\ UNCHANGED <<recv, thr>>

\* The handler writes its response.
ProbeRespond ==
  /\ \E r \in Reqs :
       /\ probe.reqs[r].pc = "called"
       /\ LET req == probe.reqs[r]
              resp == ProbeResponse(probe, req.err, RegisterInMux(req.path).probeType)
          IN  probe' = [probe EXCEPT !.reqs[r] =
                          [req EXCEPT !.pc = "done",
                                      !.status = resp.status,
                                      !.body = resp.body]]
  /\ ReplicationUnchanged
  /\ UNCHANGED <<recv, thr>>

NextProber ==
  \/ CallSetReady
  \/ CallSetNotReady
  \/ CallSetHealthy
  \/ CallSetNotHealthy
  \/ CallIsReady
  \/ CallIsHealthy
  \/ ProbeCall
  \/ ProbeRespond

SpecProber == InitProber /\ [][NextProber]_vars

\* The call that set the state last made it ok.
SetOk(last) == last.op \in {"SetReady", "SetHealthy"} \/ (last.op \in {"SetNotReady", "SetNotHealthy"} /\ last.err = NilErr)

\* C15 as stated: an IsReady (IsHealthy) call made before the first SetReady
\* (SetHealthy) call returns a non-nil error.
C15_NotReadyUntilSetReady ==
  /\ (probe.isReady.ret # <<"none">> /\ ~probe.isReady.set) => probe.isReady.ret # NilErr
  /\ (probe.isHealthy.ret # <<"none">> /\ ~probe.isHealthy.set) => probe.isHealthy.ret # NilErr

\* C15 amended: after NewProber and before any readiness-setting call IsReady
\* returns the initial error, which is not nil; later it returns nil exactly
\* when the most recent readiness-setting call was SetReady or
\* SetNotReady(nil), and otherwise the error given to that call; the same
\* for IsHealthy with the healthiness-setting calls; so a call setting one of
\* the two states never changes the other.
C15_ProberState ==
  /\ probe.lastReady.op = "NewProber" =>
       probe.readiness = InitialErr(probe.component) /\ probe.readiness # NilErr
  /\ probe.lastHealthy.op = "NewProber" =>
       probe.healthiness = InitialErr(probe.component) /\ probe.healthiness # NilErr
  /\ (probe.readiness = NilErr) <=> SetOk(probe.lastReady)
  /\ (probe.healthiness = NilErr) <=> SetOk(probe.lastHealthy)
  /\ probe.readiness = probe.lastReady.err
  /\ probe.healthiness = probe.lastHealthy.err
  /\ probe.isReady.ret # <<"none">> =>
       /\ (probe.isReady.ret = NilErr) <=> SetOk(probe.isReady.after)
       /\ probe.isReady.ret = probe.isReady.after.err
  /\ probe.isHealthy.ret # <<"none">> =>
       /\ (probe.isHealthy.ret = NilErr) <=> SetOk(probe.isHealthy.after)
       /\ probe.isHealthy.ret = probe.isHealthy.after.err

\* C15 witness: IsReady has returned nil after SetNotReady(nil) with SetReady
\* never called, while the component is not healthy for a cause given later
\* than the construction.
C15_Witness ==
  /\ probe.isReady.ret = NilErr
  /\ probe.isReady.after.op = "SetNotReady"
  /\ ~probe.setReady
  /\ probe.lastHealthy.op = "SetNotHealthy"
  /\ probe.healthiness # NilErr
  /\ probe.isHealthy.ret = probe.healthiness

\* The last n elements of a sequence.
Suffix(q, n) == SubSeq(q, Len(q) - n + 1, Len(q))

\* C16: a request on /-/ready (/-/healthy) is answered from the readiness
\* (healthiness) state as it is when the handler reads it: with status 200
\* and the text of success if and only if that state is nil, and otherwise
\* with status 500 and a body that ends with the text of the error; so a
\* request whose read comes after SetReady (SetHealthy) with no later
\* SetNotReady (SetNotHealthy) is answered with 200.
C16_ProbeReflectsState ==
  \A r \in Reqs :
    LET req == probe.reqs[r]
        probeType == IF req.path = readyEndpointPath THEN "ready" ELSE "healthy"
    IN  req.pc = "done" =>
          /\ req.status \in {200, 500}
          /\ (req.status = 200) <=> (req.seen = NilErr)
          /\ req.seen = NilErr => req.body = <<"thanos", probe.component, "is", probeType>>
          /\ req.seen # NilErr =>
               /\ req.status = 500
               /\ Len(req.body) >= Len(req.seen)
               /\ Suffix(req.body, Len(req.seen)) = req.seen
          /\ req.after.op \in {"SetReady", "SetHealthy"} => req.status = 200
          /\ req.seen = req.after.err

\* C16 witness: a request on /-/ready read the state after SetReady and has
\* been answered with 200 although SetNotReady with an error was called before
\* the answer was written.
C16_Witness ==
  \E r \in Reqs :
    /\ probe.reqs[r].pc = "done"
    /\ probe.reqs[r].path = readyEndpointPath
    /\ probe.reqs[r].after.op = "SetReady"
    /\ probe.reqs[r].status = 200
    /\ probe.readiness # NilErr
    /\ probe.healthiness # NilErr

\* --------------------------------------------- two executions of the pass
\* Two executions of execute over the same origin and the same target
\* bucket, with one set of counters; their bucket calls interleave in any way.
InitConcurrent ==
  /\ src = SrcNoLabels
  /\ dst \in Destinations(src)
  /\ dst0 = dst
  /\ procs = Procs
  /\ fin = NoFilterInput
  /\ probe = ZeroProber
  /\ recv = NoReceive
  /\ thr = NoThreads
  /\ InitCommon

SpecConcurrent == InitConcurrent /\ [][Next]_vars

\* C21: with two executions of the pass running against the same target
\* bucket, each bucket call atomic, a meta.json in the target that equals the
\* origin's comes with every chunk file and the index file of its block, in
\* every state, provided none was there without them before the first pass
\* (as when the bucket was empty); and either execution uploads meta.json only
\* after all of its object transfers for the block have returned nil.
C21_CommitLastConcurrent ==
  /\ NoEarlyCommit =>
       \A b \in DOMAIN src.metas : Committed(b) => Complete(b)
  /\ \A p \in procs :
       (loc[p].pc = "uploadMeta" \/ hist[p].call.metaUpload) =>
         /\ hist[p].call.done = ObjectPaths(hist[p].call.blk)
         /\ Complete(hist[p].call.blk)

\* C21 witness: both executions are inside ensureBlockIsReplicated for the
\* same block of a bucket that was empty, one of them about to upload
\* meta.json after finding objects the other one had uploaded.
C21_Witness ==
  /\ dst0 = EmptyBucket(src)
  /\ \E p, q \in procs :
       /\ p # q
       /\ loc[p].pc = "uploadMeta"
       /\ loc[q].id = loc[p].id
       /\ loc[q].pc \in {"exists", "get", "upload", "uploadMeta"}
       /\ hist[p].call.uploads < Cardinality(ObjectPaths(loc[p].id))
       /\ hist[q].call.uploads > 0

\* ------------------------------------------------ the receive component
OthersUnchanged ==
  /\ ReplicationUnchanged
  /\ UNCHANGED thr

\* What a request body may be: unreadable, not snappy, not a WriteRequest,
\* or a WriteRequest.
Bodies == {"readError", "badSnappy", "badProto", "valid"}

\* Handler.receive: the response it writes and whether h.receiver.Receive
\* was called, given the body and what Receive returns if called.
receive(body, written) ==
  IF body = "readError"
    THEN [status |-> 500, reason |-> <<"read", "error">>, writer |-> "none"]
  ELSE IF body = "badSnappy"
    THEN [status |-> 400, reason |-> <<"snappy", "decode", "error">>, writer |-> "none"]
  ELSE IF body = "badProto"
    THEN [status |-> 400, reason |-> <<"unmarshal", "error">>, writer |-> "none"]
  ELSE IF written = "error"
    THEN [status |-> 400, reason |-> <<"write", "error">>, writer |-> "error"]
  ELSE [status |-> 200, reason |-> <<>>, writer |-> "ok"]

\* testReady without its test.
testReadyUnchecked(readyErr, body, written) ==
  receive(body, written) @@ [receive |-> TRUE]

\* Handler.testReady(h.receive): f is called when isReady returned nil, else
\* the response is 503 with the reason.
testReady(readyErr, body, written) ==
  IF readyErr = NilErr
    THEN receive(body, written) @@ [receive |-> TRUE]
    ELSE [status |-> 503,
          reason |-> <<"Service Unavailable.", "Reason:">> \o readyErr,
          writer |-> "none",
          receive |-> FALSE]

\* g.Run has started the goroutines of the actors; NewProber and NewHandler
\* have been called.
InitReceive ==
  /\ src = SrcOrdered
  /\ dst = EmptyBucket(src)
  /\ dst0 = dst
  /\ procs = {}
  /\ fin = NoFilterInput
  /\ InitCommon
  /\ thr = NoThreads
  /\ probe = [NewProber("receive") EXCEPT
                !.lastReady = [op |-> "NewProber", err |-> InitialErr("receive")],
                !.lastHealthy = [op |-> "NewProber", err |-> InitialErr("receive")]]
  /\ recv = [NoReceive EXCEPT
               !.run = "running",
               !.pc = [a \in {"ready", "tsdb", "grpc", "http"} |->
                         CASE a = "ready" -> "select"
                           [] a = "tsdb" -> "open"
                           [] a = "grpc" -> "waitDbOpen"
                           [] a = "http" -> "healthy"]]

ActorReturned(a) == recv.pc[a] = "returned"

\* reloadReady.Close(): once.Do(close(reloadReady.C))
CloseOnce(r) ==
  IF r.once THEN r
  ELSE [r EXCEPT !.once = TRUE, !.reloadReady = "closed", !.closes = @ + 1]

\* The first actor comes to its select on dbOpen and cancel.  With both
\* channels closed the select takes either case; with none closed the
\* goroutine is parked, and the first close of one of them decides its case.
ReadySelect ==
  /\ recv.pc["ready"] = "select"
  /\ \/ /\ recv.dbOpen = "closed"
        /\ recv' = [recv EXCEPT !.pc["ready"] = "closeReload"]
     \/ /\ recv.cancelReady = "closed"
        /\ recv' = [recv EXCEPT !.pc["ready"] = "cancelled"]
     \/ /\ recv.dbOpen = "open" /\ recv.cancelReady = "open"
        /\ recv' = [recv EXCEPT !.pc["ready"] = "parked"]
  /\ UNCHANGED probe
  /\ OthersUnchanged

\* case <-cancel: reloadReady.Close(); return nil
ReadyCancelled ==
  /\ recv.pc["ready"] = "cancelled"
  /\ recv' = [CloseOnce(recv) EXCEPT !.pc["ready"] = "returned"]
  /\ UNCHANGED probe
  /\ OthersUnchanged

\* reloadReady.Close(); webHandler.Ready()
ReadyReady ==
  /\ recv.pc["ready"] = "closeReload"
  /\ recv' = [CloseOnce(recv) EXCEPT !.pc["ready"] = "waitCancel",
                                     !.readyAfter = recv.dbOpen]
  /\ probe' = [SetReady(probe) EXCEPT
                 !.lastReady = [op |-> "SetReady", err |-> NilErr],
                 !.setReady = TRUE]
  /\ OthersUnchanged

\* <-cancel; return nil
ReadyReturn ==
  /\ recv.pc["ready"] = "waitCancel"
  /\ recv.cancelReady = "closed"
  /\ recv' = [recv EXCEPT !.pc["ready"] = "returned"]
  /\ UNCHANGED probe
  /\ OthersUnchanged

\* tsdb.Open returns: an error, which the actor returns, or the database.
TSDBOpen ==
  /\ recv.pc["tsdb"] = "open"
  /\ \/ recv' = [recv EXCEPT !.pc["tsdb"] = "returned"]
     \/ recv' = [recv EXCEPT !.pc["tsdb"] = "set"]
  /\ UNCHANGED probe
  /\ OthersUnchanged

\* localStorage.Set(db, startTimeMargin); close(dbOpen)
TSDBSet ==
  /\ recv.pc["tsdb"] = "set"
  /\ recv' = [recv EXCEPT !.pc["tsdb"] = "waitCancel",
                          !.localStorage = "set",
                          !.dbOpen = "closed",
                          !.pc["ready"] = IF @ = "parked" THEN "closeReload" ELSE @]
  /\ UNCHANGED probe
  /\ OthersUnchanged

TSDBReturn ==
  /\ recv.pc["tsdb"] = "waitCancel"
  /\ recv.cancelTSDB = "closed"
  /\ recv' = [recv EXCEPT !.pc["tsdb"] = "returned"]
  /\ UNCHANGED probe
  /\ OthersUnchanged

\* The gRPC actor: select { case <-dbOpen }, then net.Listen, which may fail.
GRPCListen ==
  /\ recv.pc["grpc"] = "waitDbOpen"
  /\ recv.dbOpen = "closed"
  /\ \/ recv' = [recv EXCEPT !.pc["grpc"] = "returned"]
     \/ recv' = [recv EXCEPT !.pc["grpc"] = "setup", !.l = "open"]
  /\ UNCHANGED probe
  /\ OthersUnchanged

\* defaultGRPCServerOpts, which may fail; s = grpc.NewServer(opts...)
GRPCSetup ==
  /\ recv.pc["grpc"] = "setup"
  /\ \/ recv' = [recv EXCEPT !.pc["grpc"] = "returned"]
     \/ recv' = [recv EXCEPT !.pc["grpc"] = "serve", !.s = "new"]
  /\ UNCHANGED probe
  /\ OthersUnchanged

\* s.Serve(l) returns once the server is stopped or the listener closed.
GRPCServe ==
  /\ recv.pc["grpc"] = "serve"
  /\ IF recv.s = "stopped" \/ recv.l = "closed"
       THEN recv' = [recv EXCEPT !.pc["grpc"] = "returned"]
       ELSE recv.s = "new" /\ recv' = [recv EXCEPT !.s = "serving"]
  /\ UNCHANGED probe
  /\ OthersUnchanged

\* webHandler.Healthy()
HTTPHealthy ==
  /\ recv.pc["http"] = "healthy"
  /\ recv' = [recv EXCEPT !.pc["http"] = "serve"]
  /\ probe' = [SetHealthy(probe) EXCEPT
                 !.lastHealthy = [op |-> "SetHealthy", err |-> NilErr],
                 !.setHealthy = TRUE]
  /\ OthersUnchanged

\* httpSrv.Serve(listener) returns: the listener was closed, or it failed.
HTTPServeReturn ==
  /\ recv.pc["http"] = "serve"
  /\ recv' = [recv EXCEPT !.pc["http"] = "returned"]
  /\ UNCHANGED probe
  /\ OthersUnchanged

\* g.Run receives the first error: an actor of runReceive has returned, or
\* one of the other actors of the group (the signal handler) has.
RunFirstReturn ==
  /\ recv.run = "running"
  /\ \E a \in {"ready", "tsdb", "grpc", "http", "signal"} :
       /\ a # "signal" => ActorReturned(a)
       /\ recv' = [recv EXCEPT !.run = "interrupting", !.first = a, !.next = 1]
  /\ UNCHANGED probe
  /\ OthersUnchanged

\* The interrupt function of an actor.  The one of the gRPC actor reads s and
\* l, which the actor writes without synchronisation: it may see either nil.
Interrupted(r, a) ==
  CASE a = "ready" -> {[r EXCEPT !.cancelReady = "closed",
                                 !.signalledFirst = (r.dbOpen = "open"),
                                 !.pc["ready"] = IF @ = "parked" THEN "cancelled" ELSE @]}
    [] a = "tsdb" -> {[r EXCEPT !.cancelTSDB = "closed",
                                !.localStorage = IF @ = "set" THEN "closed" ELSE @]}
    [] a = "grpc" -> {[r EXCEPT !.s = IF sSeen = "nil" THEN @ ELSE "stopped",
                                !.l = IF lSeen = "nil" THEN @ ELSE "closed"] :
                        sSeen \in {r.s} \cup (IF r.pc["grpc"] = "returned" THEN {} ELSE {"nil"}),
                        lSeen \in {r.l} \cup (IF r.pc["grpc"] = "returned" THEN {} ELSE {"nil"})}
    [] a = "http" -> {[r EXCEPT !.listener = "closed"]}

\* g.Run calls the interrupt functions in the order the actors were added.
RunInterrupt ==
  /\ recv.run = "interrupting"
  /\ \E r \in Interrupted(recv, Actors[recv.next]) :
       recv' = [r EXCEPT !.next = @ + 1,
                         !.run = IF recv.next = Len(Actors) THEN "waiting" ELSE @]
  /\ UNCHANGED probe
  /\ OthersUnchanged

\* g.Run has received the return of every actor and returns.
RunReturn ==
  /\ recv.run = "waiting"
  /\ \A a \in {"ready", "tsdb", "grpc", "http"} : ActorReturned(a)
  /\ recv' = [recv EXCEPT !.run = "returned"]
  /\ UNCHANGED probe
  /\ OthersUnchanged

\* A POST on /api/v1/receive arrives and testReady calls h.isReady().
WriteCheck ==
  /\ recv.pc["http"] = "serve"
  /\ recv.listener = "open"
  /\ recv.write.pc \in {"idle", "done"}
  /\ \E body \in Bodies :
       recv' = [recv EXCEPT !.write = [NoWrite EXCEPT !.pc = "checked",
                                                      !.body = body,
                                                      !.readyErr = IsReady(probe),
                                                      !.seen = probe.readiness]]
  /\ UNCHANGED probe
  /\ OthersUnchanged

\* The rest of the handler: h.receive, or the response 503.
WriteRespond ==
  /\ recv.write.pc = "checked"
  /\ \E written \in {"ok", "error"} :
       LET resp == testReady(recv.write.readyErr, recv.write.body, written)
       IN  recv' = [recv EXCEPT !.write = [@ EXCEPT !.pc = "done",
                                                    !.receive = resp.receive,
                                                    !.writer = resp.writer,
                                                    !.status = resp.status,
                                                    !.reason = resp.reason]]
  /\ UNCHANGED probe
  /\ OthersUnchanged

\* The steps of the actors of runReceive.
ActorStep ==
  \/ ReadySelect
  \/ ReadyCancelled
  \/ ReadyReady
  \/ ReadyReturn
  \/ TSDBOpen
  \/ TSDBSet
  \/ TSDBReturn
  \/ GRPCListen
  \/ GRPCSetup
  \/ GRPCServe
  \/ HTTPHealthy
  \/ HTTPServeReturn

NextReceive ==
  \/ ReadySelect
  \/ ReadyCancelled
  \/ ReadyReady
  \/ ReadyReturn
  \/ TSDBOpen
  \/ TSDBSet
  \/ TSDBReturn
  \/ GRPCListen
  \/ GRPCSetup
  \/ GRPCServe
  \/ HTTPHealthy
  \/ HTTPServeReturn
  \/ RunFirstReturn
  \/ RunInterrupt
  \/ RunReturn
  \/ WriteCheck
  \/ WriteRespond

SpecReceive == InitReceive /\ [][NextReceive]_vars

\* C22 as stated: for a request to /api/v1/receive, h.receive is called, and
\* so is the writer, if and only if the readiness state was nil when testReady
\* read it; otherwise the response is 503 with the reason and the writer is
\* not called.
C22_WriterIffReady ==
  LET w == recv.write
  IN  w.pc = "done" =>
        /\ w.receive <=> (w.seen = NilErr)
        /\ (w.writer # "none") <=> (w.seen = NilErr)
        /\ w.seen # NilErr =>
             /\ w.status = 503
             /\ Suffix(w.reason, Len(w.seen)) = w.seen

\* C22 amended: h.receive is called if and only if the readiness state was
\* nil when testReady read it; the writer is called only then, and then
\* exactly when the body of the request could be read, decoded and
\* unmarshalled; otherwise, and only then, the response is 503 with the
\* reason, and neither h.receive nor the writer is called.
C22_ReceiveIffReady ==
  LET w == recv.write
  IN  w.pc = "done" =>
        /\ w.receive <=> (w.seen = NilErr)
        /\ (w.writer # "none") <=> (w.seen = NilErr /\ w.body = "valid")
        /\ (w.status = 503) <=> (w.seen # NilErr)
        /\ w.seen # NilErr =>
             /\ Len(w.reason) > Len(w.seen)
             /\ Suffix(w.reason, Len(w.seen)) = w.seen
        /\ (w.status = 200) <=> (w.writer = "ok")

\* C22 witness: a request found the component ready and h.receive was called,
\* but the body was not snappy and the writer was not called.
C22_Witness ==
  /\ recv.write.pc = "done"
  /\ recv.write.seen = NilErr
  /\ recv.write.receive
  /\ recv.write.body = "badSnappy"
  /\ recv.write.writer = "none"
  /\ recv.write.status = 400

\* The component is ready: webHandler.Ready() has set the readiness state.
ComponentReady == probe.readiness = NilErr

\* C23: the component becomes ready only after the TSDB actor has set the
\* database in localStorage and closed dbOpen; while dbOpen is open it is not
\* ready; if the cancel channel of the first actor was closed while dbOpen was
\* still open (shutdown signalled first), it never becomes ready; and
\* close(reloadReady.C) is executed at most once.
C23_ReadyOnlyAfterOpen ==
  /\ ComponentReady =>
       /\ recv.readyAfter = "closed"
       /\ recv.localStorage \in {"set", "closed"}
  /\ recv.dbOpen = "open" => ~ComponentReady
  /\ recv.signalledFirst => ~ComponentReady
  /\ recv.closes <= 1

\* The parts of C23 that hold in every interleaving: ready only after dbOpen
\* was closed, and reloadReady.C closed at most once.
ReadyAfterOpenOnly ==
  /\ ComponentReady =>
       /\ recv.readyAfter = "closed"
       /\ recv.localStorage \in {"set", "closed"}
  /\ recv.dbOpen = "open" => ~ComponentReady
  /\ recv.closes <= 1
  /\ recv.closes = 1 <=> recv.reloadReady = "closed"

\* Every actor function of runReceive has returned.
AllReturned == \A a \in {"ready", "tsdb", "grpc", "http"} : ActorReturned(a)

\* C24: once an actor has returned and g.Run has called every interrupt
\* function, no actor stays blocked for ever: a state in which no actor can
\* take a step any more is one in which every actor function has returned.
C24_GroupTerminates ==
  (recv.run = "waiting" /\ ~ENABLED ActorStep) => AllReturned

\* ------------------------------------------- the Prober under concurrency
\* Each exported function is the sequence of its steps on the mutexes and the
\* fields; a deferred Unlock is the last step of its function.
Loggers == {"logger", "other"}

Lock(m) == [i |-> "lock", a |-> m]

Unlock(m) == [i |-> "unlock", a |-> m]

Load(f) == [i |-> "read", a |-> f]

Store(f, v) == [i |-> "write", a |-> f, v |-> v]

SetLogger(logger) ==
  <<Lock("loggerMtx"), Store("logger", logger), Unlock("loggerMtx")>>

getLogger == <<Lock("loggerMtx"), Load("logger"), Unlock("loggerMtx")>>

SetComponent(component) ==
  <<Lock("componentMtx"), Store("component", component), Unlock("componentMtx")>>

getComponent == <<Lock("componentMtx"), Load("component"), Unlock("componentMtx")>>

IsReadySteps == <<Lock("readyMtx"), Load("readiness"), Unlock("readyMtx")>>

\* SetNotReady returning with readyMtx still locked.
SetNotReadyNoUnlock(err) ==
  <<Lock("readyMtx")>> \o (IF err # NilErr THEN getLogger ELSE <<>>)
    \o <<Store("readiness", err)>>

\* SetNotReady: the logger is fetched, under loggerMtx, while readyMtx is held.
SetNotReadySteps(err) ==
  <<Lock("readyMtx")>> \o (IF err # NilErr THEN getLogger ELSE <<>>)
    \o <<Store("readiness", err), Unlock("readyMtx")>>

SetReadySteps == getLogger \o SetNotReadySteps(NilErr)

IsHealthySteps == <<Lock("healthyMtx"), Load("healthiness"), Unlock("healthyMtx")>>

SetNotHealthySteps(err) ==
  <<Lock("healthyMtx")>> \o (IF err # NilErr THEN getLogger ELSE <<>>)
    \o <<Store("healthiness", err), Unlock("healthyMtx")>>

SetHealthySteps == getLogger \o SetNotHealthySteps(NilErr)

\* The handler: err := probeFunc(); p.getComponent() for either text; when err
\* is nil and the write returned no error, p.getLogger().
probeHandlerFunc(probeFunc) ==
  (IF probeFunc = "IsHealthy" THEN IsHealthySteps ELSE IsReadySteps)
    \o getComponent \o <<[i |-> "ifNil", a |-> "err"]>> \o getLogger

\* What goroutines call: the exported functions and the two endpoints.
Ops ==
  {"SetLogger", "SetComponent", "IsReady", "SetReady", "SetNotReady",
   "IsHealthy", "SetHealthy", "SetNotHealthy",
   healthyEndpointPath, readyEndpointPath}

Args(op) ==
  CASE op = "SetLogger" -> Loggers
    [] op = "SetComponent" -> Components
    [] op \in {"SetNotReady", "SetNotHealthy"} -> Errs
    [] OTHER -> {NilErr}

Steps(op, arg) ==
  CASE op = "SetLogger" -> SetLogger(arg)
    [] op = "SetComponent" -> SetComponent(arg)
    [] op = "IsReady" -> IsReadySteps
    [] op = "SetReady" -> SetReadySteps
    [] op = "SetNotReady" -> SetNotReadySteps(arg)
    [] op = "IsHealthy" -> IsHealthySteps
    [] op = "SetHealthy" -> SetHealthySteps
    [] op = "SetNotHealthy" -> SetNotHealthySteps(arg)
    [] OTHER -> probeHandlerFunc(RegisterInMux(op).probeFunc)

\* The code of the call goroutine t is in, and the step it takes next.
Code(t) == Steps(thr.g[t].op, thr.g[t].err)

Running(t) == thr.g[t].op # "none" /\ thr.g[t].pc <= Len(Code(t))

Ins(t) == Code(t)[thr.g[t].pc]

\* A Prober made by NewProber, no goroutine calling it yet.
InitLocks ==
  /\ src = SrcOrdered
  /\ dst = EmptyBucket(src)
  /\ dst0 = dst
  /\ procs = {}
  /\ fin = NoFilterInput
  /\ InitCommon
  /\ probe = NewProber("receive")
  /\ recv = NoReceive
  /\ thr = [NoThreads EXCEPT
              !.invoked = [readiness |-> {InitialErr("receive")},
                           healthiness |-> {InitialErr("receive")}]]

LocksUnchanged == ReplicationUnchanged /\ UNCHANGED recv

\* Goroutine t calls a function of the Prober.
GoCall(t) ==
  /\ thr.g[t].op = "none"
  /\ \E op \in Ops : \E arg \in Args(op) :
       thr' = [thr EXCEPT
                 !.g[t] = [NoOp EXCEPT !.op = op, !.err = arg, !.pc = 1,
                                       !.held = thr.g[t].held],
                 !.invoked.readiness =
                   IF op \in {"SetReady", "SetNotReady"} THEN @ \cup {arg} ELSE @,
                 !.invoked.healthiness =
                   IF op \in {"SetHealthy", "SetNotHealthy"} THEN @ \cup {arg} ELSE @]
  /\ UNCHANGED probe
  /\ LocksUnchanged

\* sync.Mutex.Lock: returns once the mutex is unlocked, and locks it.
GoLock(t) ==
  /\ Running(t)
  /\ Ins(t).i = "lock"
  /\ thr.mtx[Ins(t).a] = 0
  /\ thr' = [thr EXCEPT !.mtx[Ins(t).a] = t,
                        !.g[t].held = Append(@, Ins(t).a),
                        !.g[t].pc = @ + 1]
  /\ UNCHANGED probe
  /\ LocksUnchanged

\* sync.Mutex.Unlock.
GoUnlock(t) ==
  /\ Running(t)
  /\ Ins(t).i = "unlock"
  /\ thr.mtx[Ins(t).a] # 0
  /\ thr' = [thr EXCEPT !.mtx[Ins(t).a] = 0,
                        !.g[t].held = SelectSeq(@, LAMBDA m : m # Ins(t).a),
                        !.g[t].pc = @ + 1]
  /\ UNCHANGED probe
  /\ LocksUnchanged

\* return p.readiness, p.healthiness, p.logger, p.component
GoRead(t) ==
  /\ Running(t)
  /\ Ins(t).i = "read"
  /\ thr' = [thr EXCEPT
               !.g[t] =
                 CASE Ins(t).a = "readiness" ->
                        [@ EXCEPT !.pc = @ + 1, !.field = "readiness",
                                  !.ret = IsReady(probe),
                                  !.okRead = IsReady(probe) \in thr.invoked.readiness]
                   [] Ins(t).a = "healthiness" ->
                        [@ EXCEPT !.pc = @ + 1, !.field = "healthiness",
                                  !.ret = IsHealthy(probe),
                                  !.okRead = IsHealthy(probe) \in thr.invoked.healthiness]
                   [] OTHER -> [@ EXCEPT !.pc = @ + 1]]
  /\ UNCHANGED probe
  /\ LocksUnchanged

\* p.readiness = err, p.healthiness = err, p.logger = logger,
\* p.component = component
GoWrite(t) ==
  /\ Running(t)
  /\ Ins(t).i = "write"
  /\ probe' = CASE Ins(t).a = "readiness" -> SetNotReady(probe, Ins(t).v)
                [] Ins(t).a = "healthiness" -> SetNotHealthy(probe, Ins(t).v)
                [] Ins(t).a = "component" -> [probe EXCEPT !.component = Ins(t).v]
                [] OTHER -> probe
  /\ thr' = [thr EXCEPT
               !.logger = IF Ins(t).a = "logger" THEN Ins(t).v ELSE @,
               !.g[t].pc = @ + 1]
  /\ LocksUnchanged

\* if err == nil { if _, e := io.WriteString(...); e == nil { ... } } else
\* { http.Error(...) }: the logger is fetched only after a write that
\* returned no error.
GoBranch(t) ==
  /\ Running(t)
  /\ Ins(t).i = "ifNil"
  /\ \E e \in {"nil", "error"} :
       thr' = [thr EXCEPT
                 !.g[t].pc = IF thr.g[t].ret = NilErr /\ e = "nil"
                               THEN @ + 1 ELSE Len(Code(t)) + 1]
  /\ UNCHANGED probe
  /\ LocksUnchanged

\* The function returns.
GoReturn(t) ==
  /\ thr.g[t].op # "none"
  /\ thr.g[t].pc > Len(Code(t))
  /\ thr' = [thr EXCEPT !.g[t] = [NoOp EXCEPT !.held = thr.g[t].held]]
  /\ UNCHANGED probe
  /\ LocksUnchanged

NextLocks ==
  \E t \in Goroutines :
    \/ GoCall(t)
    \/ GoLock(t)
    \/ GoUnlock(t)
    \/ GoRead(t)
    \/ GoWrite(t)
    \/ GoBranch(t)
    \/ GoReturn(t)

SpecLocks == InitLocks /\ [][NextLocks]_vars

\* Goroutine t is in Lock on a mutex that is locked.
Waiting(t) == Running(t) /\ Ins(t).i = "lock" /\ thr.mtx[Ins(t).a] # 0

\* The goroutine that t waits for, 0 when t does not wait.
Blocker(t) == IF t # 0 /\ Waiting(t) THEN thr.mtx[Ins(t).a] ELSE 0

RECURSIVE WaitChain(_, _)
WaitChain(t, n) == IF n = 0 \/ t = 0 THEN t ELSE WaitChain(Blocker(t), n - 1)

\* t is one of goroutines that wait for each other in a circle.
Deadlocked(t) == WaitChain(t, MaxGoroutines) # 0

\* The order of the mutexes: loggerMtx is locked last.
LockRank(m) == IF m = "loggerMtx" THEN 2 ELSE 1

\* The mutexes goroutine t holds, and the one it is locking, were locked in
\* the order of LockRank.
InLockOrder(t) ==
  LET held == thr.g[t].held
      all == IF Running(t) /\ Ins(t).i = "lock" THEN Append(held, Ins(t).a) ELSE held
  IN  \A i, j \in 1..Len(all) : i < j => LockRank(all[i]) < LockRank(all[j])

\* C25: when any number of goroutines use one Prober, through SetReady,
\* SetNotReady, SetHealthy, SetNotHealthy, IsReady, IsHealthy, SetLogger,
\* SetComponent and the probe handlers, no goroutines wait for each other in a
\* circle, every goroutine locks the mutexes in one order, a mutex is held
\* only by a goroutine inside a call (a call that returned has unlocked what
\* it locked), and a read of readiness or healthiness returns a value given
\* to a call, complete or still running, that sets that same field.
C25_NoDeadlockValidReads ==
  /\ \A t \in Goroutines : ~Deadlocked(t)
  /\ \A t \in Goroutines : InLockOrder(t)
  /\ \A t \in Goroutines : thr.g[t].op = "none" => thr.g[t].held = <<>>
  /\ \A m \in Mutexes :
       /\ thr.mtx[m] # 0 => m \in Range(thr.g[thr.mtx[m]].held)
       /\ \A t \in Goroutines : m \in Range(thr.g[t].held) => thr.mtx[m] = t
  /\ \A t \in Goroutines : thr.g[t].okRead

\* One goroutine is in SetNotReady holding readyMtx and loggerMtx while
\* another, whose handler has read a readiness that a SetReady wrote, waits
\* for the logger.
C25_Witness ==
  \E t, u \in Goroutines :
    /\ thr.g[t].held = <<"readyMtx", "loggerMtx">>
    /\ Waiting(u)
    /\ Blocker(u) = t
    /\ thr.g[u].op = readyEndpointPath
    /\ thr.g[u].field = "readiness"
    /\ thr.g[u].ret = NilErr
    /\ thr.g[u].okRead

====
